---- MODULE Spec2Model ----
(***************************************************************************)
(* A model of ffmpeg-light: the transcode request builder and its argument *)
(* rendering (transcode.rs), the process runner (command.rs), the error    *)
(* constructor (error.rs), filter rendering (filter.rs), timestamps        *)
(* (types.rs) and probe-report parsing (probe.rs).                         *)
(*                                                                         *)
(* Conventions.  A Rust String / OsString / PathBuf is a sequence of       *)
(* one-character strings.  Option<T> is a sequence of length 0 (None) or 1 *)
(* (Some).  An enum value is a record with a "tag" field.                  *)
(***************************************************************************)
EXTENDS Integers, Sequences, FiniteSets, TLC

VARIABLES
    builder,      \* the TranscodeBuilder value (its thirteen fields)
    phase,        \* where the builder's life is: Empty, Configuring, Validated, Running, Executed, Rejected
    nCalls,       \* number of configuration calls made so far
    validated,    \* Option<ValidatedTranscode>
    cmd,          \* Option<FfmpegCommand>: binary and argument vector
    proc,         \* the external process of this invocation
    spawns,       \* how many processes this invocation has spawned
    validations,  \* how many times validate ran
    discoveries,  \* how many times binary discovery (FfmpegLocator::system) ran
    result,       \* what the terminal call returned
    prober,       \* Option: the FfprobeCommand of a probe request and the entry point that made it
    pphase,       \* where the probe request is: Idle, Built, Running, Done
    call,         \* a call of one of the pure functions: its name and argument
    returned,     \* what that call returned
    jobs          \* invocations in flight at the same time, and the operating system's processes

vars == <<builder, phase, nCalls, validated, cmd, proc, spawns, validations, discoveries, result,
         prober, pphase, call, returned, jobs>>

-----------------------------------------------------------------------------
(* Option<T> *)

None == <<>>

Some(x) == <<x>>

IsSome(o) == Len(o) = 1

Unwrap(o) == o[1]

-----------------------------------------------------------------------------
(* Decimal formatting of unsigned integers: format!("{n}") *)

Digits == <<"0", "1", "2", "3", "4", "5", "6", "7", "8", "9">>

RECURSIVE DecStr(_)
DecStr(n) == IF n < 10 THEN <<Digits[n + 1]>>
             ELSE Append(DecStr(n \div 10), Digits[(n % 10) + 1])

(* Display of a float: sign, integer part, and a fraction only when it is   *)
(* non-zero (30.0 prints "30", 29.97 prints "29.97"); never an exponent.    *)
(* A finite float is [neg, whole, frac] with frac its shortest fraction      *)
(* digits; NaN prints "NaN" and the infinities "inf" and "-inf".            *)
FormatFloat(f) ==
    IF f.kind = "nan" THEN <<"N","a","N">>
    ELSE (IF f.neg THEN <<"-">> ELSE <<>>)
         \o (IF f.kind = "inf" THEN <<"i","n","f">>
             ELSE DecStr(f.whole) \o (IF f.frac = <<>> THEN <<>> ELSE <<".">> \o f.frac))

Flt(neg, whole, frac) == [kind |-> "fin", neg |-> neg, whole |-> whole, frac |-> frac]

FltInf(neg) == [kind |-> "inf", neg |-> neg, whole |-> 0, frac |-> <<>>]

FltNaN == [kind |-> "nan", neg |-> FALSE, whole |-> 0, frac |-> <<>>]

(* slice::join(sep): the strings of a list with sep between neighbours *)
RECURSIVE Join(_, _)
Join(strs, sep) ==
    IF strs = <<>> THEN <<>>
    ELSE IF Len(strs) = 1 THEN strs[1]
    ELSE strs[1] \o sep \o Join(Tail(strs), sep)

-----------------------------------------------------------------------------
(* types.rs: Time, a std Duration [secs, nanos] *)

NANOS_PER_SEC == 1000000000

NANOS_PER_MILLI == 1000000

SECS_PER_HOUR == 3600

SECS_PER_MINUTE == 60

Duration(secs, nanos) == [secs |-> secs, nanos |-> nanos]

(* Time::from_seconds(u64) *)
from_seconds(seconds) == Duration(seconds, 0)

(* Time::from_seconds_f64.  The argument is the real number                 *)
(* s.whole + s.half / (2 * 10^9): whole seconds plus a fraction counted in  *)
(* half nanoseconds, so that both sides of every rounding point exist.      *)
(* The nanosecond count (seconds * 1e9).round() is kept as two base-10^9    *)
(* limbs, because it does not fit the checker's integers: round() rounds    *)
(* half away from zero, and a fraction that rounds up to a whole second     *)
(* carries into the upper limb.  trunc(nanos / 1e9) is then the upper limb  *)
(* and nanos % 1e9 the lower one.                                           *)
from_seconds_f64(s) ==
    LET lowRounded == (s.half + 1) \div 2
        carry == lowRounded \div NANOS_PER_SEC
        secs == s.whole + carry
        sub_nanos == lowRounded % NANOS_PER_SEC
    IN  Duration(secs, sub_nanos)

(* the sub-second part rounded to the nearest millisecond *)
subsec_millis_Rounded(d) == (d.nanos + (NANOS_PER_MILLI \div 2)) \div NANOS_PER_MILLI

(* Duration::subsec_millis *)
subsec_millis(d) == d.nanos \div NANOS_PER_MILLI

(* format!("{n:0w}"): zero padding to a minimum width *)
RECURSIVE ZeroPad(_, _)
ZeroPad(str, width) == IF Len(str) >= width THEN str ELSE ZeroPad(<<"0">> \o str, width)

(* Time::to_ffmpeg_timestamp *)
to_ffmpeg_timestamp(t) ==
    LET total_secs == t.secs
        hours == total_secs \div SECS_PER_HOUR
        minutes == (total_secs % SECS_PER_HOUR) \div SECS_PER_MINUTE
        seconds == total_secs % SECS_PER_MINUTE
        millis == subsec_millis(t)
    IN  ZeroPad(DecStr(hours), 2) \o <<":">> \o ZeroPad(DecStr(minutes), 2) \o <<":">>
        \o ZeroPad(DecStr(seconds), 2) \o <<".">> \o ZeroPad(DecStr(millis), 3)

-----------------------------------------------------------------------------
(* filter.rs *)

(* DenoiseStrength::to_filter_value *)
to_filter_value(strength) ==
    CASE strength = "Light" ->
            <<"h","q","d","n","3","d","=","1",".","5",":","1",".","5",":","6",":","6">>
      [] strength = "Medium" ->
            <<"h","q","d","n","3","d","=","3",":","3",":","6",":","6">>
      [] strength = "Heavy" ->
            <<"h","q","d","n","3","d","=","5",":","5",":","6",":","6">>

(* degrees * PI / 180, printed.  PI is taken to six decimals and the        *)
(* product is cut to micro-radians: the printed text has the shape of the   *)
(* program's (sign, integer part, '.', fraction digits) with fewer digits.  *)
PI_MICRO == 3141593

DEGREES_PER_HALF_TURN == 180

MICRO == 1000000

RECURSIVE StripZeros(_)
StripZeros(ds) == IF ds # <<>> /\ ds[Len(ds)] = "0" THEN StripZeros(SubSeq(ds, 1, Len(ds) - 1)) ELSE ds

Radians(degrees) ==
    IF degrees.kind # "fin" THEN degrees
    ELSE LET micro == (degrees.whole * PI_MICRO) \div DEGREES_PER_HALF_TURN
         IN  Flt(degrees.neg, micro \div MICRO, StripZeros(ZeroPad(DecStr(micro % MICRO), 6)))

(* an optional parameter that renders as zero when it is absent *)
OptPart_AbsentAsZero(key, opt) ==
    IF IsSome(opt) THEN <<key \o <<"=">> \o FormatFloat(Unwrap(opt))>> ELSE <<key \o <<"=","0">>>>

(* the parts of eq= / superequalizer=: one "<key>=<value>" per present field *)
OptPart(key, opt) == IF IsSome(opt) THEN <<key \o <<"=">> \o FormatFloat(Unwrap(opt))>> ELSE <<>>

(* VideoFilter::to_filter_string *)
VideoFilter_to_filter_string(f) ==
    CASE f.tag = "Scale" ->
            <<"s","c","a","l","e","=">> \o DecStr(f.width) \o <<":">> \o DecStr(f.height)
      [] f.tag = "Trim" ->
            IF IsSome(f.end)
            THEN <<"t","r","i","m","=","s","t","a","r","t","=">> \o to_ffmpeg_timestamp(f.start)
                 \o <<":","e","n","d","=">> \o to_ffmpeg_timestamp(Unwrap(f.end))
            ELSE <<"t","r","i","m","=","s","t","a","r","t","=">> \o to_ffmpeg_timestamp(f.start)
      [] f.tag = "Crop" ->
            <<"c","r","o","p","=">> \o DecStr(f.width) \o <<":">> \o DecStr(f.height)
            \o <<":">> \o DecStr(f.x) \o <<":">> \o DecStr(f.y)
      [] f.tag = "Rotate" ->
            <<"r","o","t","a","t","e","=">> \o FormatFloat(Radians(f.degrees))
      [] f.tag = "Flip" ->
            IF f.direction = "h" THEN <<"h","f","l","i","p">>
            ELSE IF f.direction = "v" THEN <<"v","f","l","i","p">>
            ELSE <<"h","f","l","i","p">>
      [] f.tag = "BrightnessContrast" ->
            LET parts == OptPart(<<"b","r","i","g","h","t","n","e","s","s">>, f.brightness)
                         \o OptPart(<<"c","o","n","t","r","a","s","t">>, f.contrast)
            IN  IF parts = <<>> THEN <<"e","q">>
                ELSE <<"e","q","=">> \o Join(parts, <<":">>)
      [] f.tag = "Denoise" -> to_filter_value(f.strength)
      [] f.tag = "Deinterlace" -> <<"y","a","d","i","f">>
      [] f.tag = "Custom" -> f.raw

(* an equalizer whose parts are joined with ',' instead of ':' *)
AudioFilter_to_filter_string_CommaJoin(f) ==
    CASE f.tag = "Volume" ->
            <<"v","o","l","u","m","e","=">> \o FormatFloat(f.vol)
      [] f.tag = "Equalizer" ->
            LET parts == OptPart(<<"b">>, f.bass) \o OptPart(<<"m">>, f.mid)
                         \o OptPart(<<"t">>, f.treble)
            IN  IF parts = <<>> THEN <<"s","u","p","e","r","e","q","u","a","l","i","z","e","r">>
                ELSE <<"s","u","p","e","r","e","q","u","a","l","i","z","e","r","=">>
                     \o Join(parts, <<",">>)
      [] f.tag = "Normalization" ->
            <<"a","n","l","m","d","n","=","m","=","I",":","p","=","0",".","0","5",",",
              "l","o","u","d","n","o","r","m","=","I","=">> \o FormatFloat(f.target_level)
      [] f.tag = "HighPass" ->
            <<"h","i","g","h","p","a","s","s","=","f","=">> \o FormatFloat(f.frequency)
      [] f.tag = "LowPass" ->
            <<"l","o","w","p","a","s","s","=","f","=">> \o FormatFloat(f.frequency)
      [] f.tag = "Custom" -> f.raw

(* AudioFilter::to_filter_string *)
AudioFilter_to_filter_string(f) ==
    CASE f.tag = "Volume" ->
            <<"v","o","l","u","m","e","=">> \o FormatFloat(f.vol)
      [] f.tag = "Equalizer" ->
            LET parts == OptPart(<<"b">>, f.bass) \o OptPart(<<"m">>, f.mid)
                         \o OptPart(<<"t">>, f.treble)
            IN  IF parts = <<>> THEN <<"s","u","p","e","r","e","q","u","a","l","i","z","e","r">>
                ELSE <<"s","u","p","e","r","e","q","u","a","l","i","z","e","r","=">>
                     \o Join(parts, <<":">>)
      [] f.tag = "Normalization" ->
            <<"a","n","l","m","d","n","=","m","=","I",":","p","=","0",".","0","5",",",
              "l","o","u","d","n","o","r","m","=","I","=">> \o FormatFloat(f.target_level)
      [] f.tag = "HighPass" ->
            <<"h","i","g","h","p","a","s","s","=","f","=">> \o FormatFloat(f.frequency)
      [] f.tag = "LowPass" ->
            <<"l","o","w","p","a","s","s","=","f","=">> \o FormatFloat(f.frequency)
      [] f.tag = "Custom" -> f.raw

-----------------------------------------------------------------------------
(* error.rs *)

(* Captured bytes and decoded text are run-length encoded: a sequence of     *)
(* runs [k, n], n >= 1 units of kind k.  Byte kinds: "ascii" (a one-byte     *)
(* character), "two" / "three" / "four" (a well-formed character of that     *)
(* many bytes), "bad" (a byte that is not valid UTF-8 by itself, such as     *)
(* 0xFF).  Text kinds add "repl" (U+FFFD, what lossy decoding puts in place  *)
(* of a bad byte) and "ellipsis" (U+2026).                                   *)
CharWidth(k) ==
    CASE k = "ascii" -> 1
      [] k = "two" -> 2
      [] k = "three" -> 3
      [] k = "four" -> 4
      [] k = "repl" -> 3
      [] k = "ellipsis" -> 3
      [] k = "bad" -> 1

Rle(k, n) == [k |-> k, n |-> n]

(* str::len / <[u8]>::len: the length in bytes *)
RECURSIVE ByteLen(_)
ByteLen(text) ==
    IF text = <<>> THEN 0
    ELSE CharWidth(text[1].k) * text[1].n + ByteLen(Tail(text))

(* str::chars().count(): the length in characters *)
RECURSIVE CharLen(_)
CharLen(text) ==
    IF text = <<>> THEN 0 ELSE text[1].n + CharLen(Tail(text))

(* String::from_utf8_lossy: every bad byte becomes one U+FFFD *)
from_utf8_lossy(bytes) ==
    [i \in 1..Len(bytes) |->
        IF bytes[i].k = "bad" THEN Rle("repl", bytes[i].n) ELSE bytes[i]]

(* str::is_char_boundary(index) *)
RECURSIVE is_char_boundary(_, _)
is_char_boundary(text, index) ==
    IF index = 0 THEN TRUE
    ELSE IF text = <<>> THEN FALSE
    ELSE LET w == CharWidth(text[1].k)
             runBytes == w * text[1].n
         IN  IF index <= runBytes THEN index % w = 0
             ELSE is_char_boundary(Tail(text), index - runBytes)

(* the first new_len bytes of text, new_len on a character boundary *)
RECURSIVE Prefix(_, _)
Prefix(text, new_len) ==
    IF new_len = 0 \/ text = <<>> THEN <<>>
    ELSE LET w == CharWidth(text[1].k)
             runBytes == w * text[1].n
         IN  IF new_len < runBytes THEN <<Rle(text[1].k, new_len \div w)>>
             ELSE <<text[1]>> \o Prefix(Tail(text), new_len - runBytes)

(* String::push_str of one character; runs of one kind are kept merged *)
PushChar(text, k) ==
    IF text # <<>> /\ text[Len(text)].k = k
    THEN [text EXCEPT ![Len(text)].n = @ + 1]
    ELSE Append(text, Rle(k, 1))

(* String::truncate(new_len): nothing when new_len > len, otherwise it      *)
(* asserts is_char_boundary(new_len) and panics when that fails.            *)
String_truncate(text, new_len) ==
    IF new_len > ByteLen(text) THEN [panic |-> FALSE, text |-> text]
    ELSE IF ~is_char_boundary(text, new_len) THEN [panic |-> TRUE, text |-> text]
    ELSE [panic |-> FALSE, text |-> Prefix(text, new_len)]

MAX == 4096

(* fn truncate(message: &[u8]) -> String *)
truncate(message) ==
    LET text == from_utf8_lossy(message)
    IN  IF ByteLen(text) > MAX
        THEN LET cut == String_truncate(text, MAX)
             IN  IF cut.panic THEN cut
                 ELSE [panic |-> FALSE, text |-> PushChar(cut.text, "ellipsis")]
        ELSE [panic |-> FALSE, text |-> text]

(* what a call returned: nothing yet, Ok(value), Err(error), or a panic *)
NoResult == [tag |-> "NoResult"]

Ok(v) == [tag |-> "Ok", value |-> v]

Err(e) == [tag |-> "Err", error |-> e]

Panicked == [tag |-> "Panic"]

Unit == <<>>

(* no pure function is being called *)
NoCall == [fn |-> "none"]

(* the variants of Error that the modelled operations build *)
FFmpegNotFound(suggestion) == [kind |-> "FFmpegNotFound", suggestion |-> suggestion]

ProcessingError(binary, exit_code, message) ==
    [kind |-> "ProcessingError", binary |-> binary, exit_code |-> exit_code, message |-> message]

InvalidInput(msg) == [kind |-> "InvalidInput", msg |-> msg]

Io(what) == [kind |-> "Io", what |-> what]

(* Error::command_failed: the error the caller gets, or the panic of truncate *)
command_failed(binary, exit_code, stderr) ==
    LET message == truncate(stderr)
    IN  IF message.panic THEN Panicked
        ELSE Err(ProcessingError(binary, exit_code, message.text))

-----------------------------------------------------------------------------
(* types.rs: CodecType *)

UpperLetters == <<"A","B","C","D","E","F","G","H","I","J","K","L","M",
                  "N","O","P","Q","R","S","T","U","V","W","X","Y","Z">>

LowerLetters == <<"a","b","c","d","e","f","g","h","i","j","k","l","m",
                  "n","o","p","q","r","s","t","u","v","w","x","y","z">>

(* char::to_lowercase, for the ASCII letters and two letters outside ASCII: *)
(* LATIN CAPITAL LETTER E WITH ACUTE, and KELVIN SIGN whose lower case is    *)
(* the ASCII k                                                              *)
LowerChar(ch) ==
    IF \E i \in 1..26 : UpperLetters[i] = ch
    THEN LowerLetters[CHOOSE i \in 1..26 : UpperLetters[i] = ch]
    ELSE IF ch = "U+00C9" THEN "U+00E9"
    ELSE IF ch = "U+212A" THEN "k"
    ELSE ch

(* str::to_lowercase *)
to_lowercase(str) == [i \in 1..Len(str) |-> LowerChar(str[i])]

(* a from_name that compares the name as it is written *)
from_name_CaseSensitive(name) ==
    CASE name = <<"h","2","6","4">> \/ name = <<"l","i","b","x","2","6","4">> -> [tag |-> "H264"]
      [] name = <<"h","e","v","c">> \/ name = <<"h","2","6","5">>
         \/ name = <<"l","i","b","x","2","6","5">> -> [tag |-> "Hevc"]
      [] name = <<"v","p","9">> -> [tag |-> "Vp9"]
      [] name = <<"a","v","1">> -> [tag |-> "Av1"]
      [] name = <<"a","a","c">> -> [tag |-> "Aac"]
      [] name = <<"m","p","3">> -> [tag |-> "Mp3"]
      [] name = <<"o","p","u","s">> -> [tag |-> "Opus"]
      [] name = <<"p","c","m","_","s","1","6","l","e">> -> [tag |-> "PcmS16Le"]
      [] name = <<"c","o","p","y">> -> [tag |-> "Copy"]
      [] OTHER -> [tag |-> "Other", name |-> to_lowercase(name)]

(* CodecType::from_name *)
from_name(name) ==
    LET l == to_lowercase(name)
    IN  CASE l = <<"h","2","6","4">> \/ l = <<"l","i","b","x","2","6","4">> -> [tag |-> "H264"]
          [] l = <<"h","e","v","c">> \/ l = <<"h","2","6","5">>
             \/ l = <<"l","i","b","x","2","6","5">> -> [tag |-> "Hevc"]
          [] l = <<"v","p","9">> -> [tag |-> "Vp9"]
          [] l = <<"a","v","1">> -> [tag |-> "Av1"]
          [] l = <<"a","a","c">> -> [tag |-> "Aac"]
          [] l = <<"m","p","3">> -> [tag |-> "Mp3"]
          [] l = <<"o","p","u","s">> -> [tag |-> "Opus"]
          [] l = <<"p","c","m","_","s","1","6","l","e">> -> [tag |-> "PcmS16Le"]
          [] l = <<"c","o","p","y">> -> [tag |-> "Copy"]
          [] OTHER -> [tag |-> "Other", name |-> l]

(* an as_str that renders the name the prober reports *)
as_str_ProbeName(c) ==
    CASE c.tag = "H264" -> <<"h","2","6","4">>
      [] c.tag = "Hevc" -> <<"h","e","v","c">>
      [] c.tag = "Vp9" -> <<"v","p","9">>
      [] c.tag = "Av1" -> <<"a","v","1">>
      [] c.tag = "Aac" -> <<"a","a","c">>
      [] c.tag = "Mp3" -> <<"m","p","3">>
      [] c.tag = "Opus" -> <<"o","p","u","s">>
      [] c.tag = "PcmS16Le" -> <<"p","c","m","_","s","1","6","l","e">>
      [] c.tag = "Copy" -> <<"c","o","p","y">>
      [] c.tag = "Other" -> c.name

(* CodecType::as_str *)
as_str(c) ==
    CASE c.tag = "H264" -> <<"l","i","b","x","2","6","4">>
      [] c.tag = "Hevc" -> <<"l","i","b","x","2","6","5">>
      [] c.tag = "Vp9" -> <<"l","i","b","v","p","x","-","v","p","9">>
      [] c.tag = "Av1" -> <<"l","i","b","a","o","m","-","a","v","1">>
      [] c.tag = "Aac" -> <<"a","a","c">>
      [] c.tag = "Mp3" -> <<"l","i","b","m","p","3","l","a","m","e">>
      [] c.tag = "Opus" -> <<"l","i","b","o","p","u","s">>
      [] c.tag = "PcmS16Le" -> <<"p","c","m","_","s","1","6","l","e">>
      [] c.tag = "Copy" -> <<"c","o","p","y">>
      [] c.tag = "Other" -> c.name

(* FormatInfo::new *)
FormatInfo_new(format_name, format_long_name, duration, bit_rate, size_) ==
    [format_name |-> format_name, format_long_name |-> format_long_name,
     duration |-> duration, bit_rate |-> bit_rate, size |-> size_]

(* ProbeResult::new *)
ProbeResult_new(format, streams) == [format |-> format, streams |-> streams]

-----------------------------------------------------------------------------
(* command.rs *)

(* An OsString unit that is not valid UTF-8; a path holding one has no str. *)
InvalidUnit == "\\xFF"

IsUtf8(path) == \A i \in 1..Len(path) : path[i] # InvalidUnit

(* fn display_path(path) = path.to_str().unwrap_or("<invalid utf8 path>") *)
display_path(path) ==
    IF IsUtf8(path) THEN path
    ELSE <<"<","i","n","v","a","l","i","d"," ","u","t","f","8"," ","p","a","t","h",">">>

(* FfmpegBinaryPaths::with_paths *)
with_paths(ffmpeg, ffprobe) == [ffmpeg |-> ffmpeg, ffprobe |-> ffprobe]

(* what which("ffmpeg") / which("ffprobe") find on PATH *)
WhichFfmpeg == <<"/","u","s","r","/","b","i","n","/","f","f","m","p","e","g">>

WhichFfprobe == <<"/","u","s","r","/","b","i","n","/","f","f","p","r","o","b","e">>

(* FfmpegBinaryPaths::auto; onPath says which of the two names PATH holds *)
auto(onPath) ==
    IF ~onPath.ffmpeg
    THEN Err(FFmpegNotFound(Some("install ffmpeg with 'brew install ffmpeg' (macOS), 'apt install ffmpeg' (Linux), or download from ffmpeg.org")))
    ELSE IF ~onPath.ffprobe
    THEN Err(FFmpegNotFound(Some("ffprobe comes with ffmpeg installation")))
    ELSE Ok(with_paths(WhichFfmpeg, WhichFfprobe))

(* FfmpegCommand::new *)
FfmpegCommand_new(binary) == [binary |-> binary, args |-> <<>>]

(* FfmpegCommand::arg *)
arg(c, a) == [c EXCEPT !.args = Append(@, a)]

(* FfmpegCommand::args *)
args(c, as) == [c EXCEPT !.args = @ \o as]

(* ExitStatus::success: an exit code, and it is zero *)
success(code) == code = Some(0)

(* the part of FfmpegCommand::run after run_with_output has returned *)
FfmpegCommand_run_result(c, output) ==
    IF ~success(output.code)
    THEN command_failed(display_path(c.binary), output.code, output.stderr)
    ELSE Ok(Unit)

-----------------------------------------------------------------------------
(* config.rs *)

(* FfmpegLocator::system *)
system(onPath) ==
    LET r == auto(onPath)
    IN  IF r.tag = "Err" THEN r ELSE Ok([paths |-> r.value])

(* the files of the filesystem the requests run on: the binaries that PATH   *)
(* leads to, and the explicitly supplied ones that exist                    *)
ExistingFiles ==
    {WhichFfmpeg, WhichFfprobe,
     <<"/","o","p","t","/","f","f","m","p","e","g">>,
     <<"/","o","p","t","/","f","f","p","r","o","b","e">>,
     <<"/","x",InvalidUnit,"/","f","f","m","p","e","g">>,
     <<"/","x",InvalidUnit,"/","f","f","p","r","o","b","e">>}

(* Path::exists *)
path_exists(path) == path \in ExistingFiles

(* Error::BinaryNotFound { binary }, as config.rs builds it *)
BinaryNotFound(binary) == [kind |-> "BinaryNotFound", binary |-> binary]

(* FfmpegLocator::with_paths: both paths are tested with Path::exists;      *)
(* path.display().to_string() is the path's text                            *)
FfmpegLocator_with_paths(ffmpeg, ffprobe) ==
    IF ~path_exists(ffmpeg) THEN Err(BinaryNotFound(ffmpeg))
    ELSE IF ~path_exists(ffprobe) THEN Err(BinaryNotFound(ffprobe))
    ELSE Ok([paths |-> with_paths(ffmpeg, ffprobe)])

(* FfmpegLocator::from_paths *)
from_paths(paths) == [paths |-> paths]

(* FfmpegLocator::binaries *)
binaries(locator) == locator.paths

-----------------------------------------------------------------------------
(* command.rs: FfprobeCommand, ffprobe_json *)

(* FfmpegCommand::spawn_command: stdout inherited, stderr piped *)
spawn_command(c) ==
    [binary |-> c.binary, args |-> c.args, stdout |-> "inherit", stderr |-> "piped"]

(* FfprobeCommand::new *)
FfprobeCommand_new(binary, path) == [binary |-> binary, input |-> path, extra_args |-> <<>>]

(* FfprobeCommand::arg *)
FfprobeCommand_arg(c, a) == [c EXCEPT !.extra_args = Append(@, a)]

(* a build_command that puts the extra arguments in front of the defaults *)
build_command_ExtrasFirst(c) ==
    [binary |-> c.binary,
     args |-> c.extra_args
              \o <<<<"-","v">>, <<"q","u","i","e","t">>,
                   <<"-","p","r","i","n","t","_","f","o","r","m","a","t">>, <<"j","s","o","n">>,
                   <<"-","s","h","o","w","_","f","o","r","m","a","t">>,
                   <<"-","s","h","o","w","_","s","t","r","e","a","m","s">>>>
              \o <<c.input>>,
     stdout |-> "piped", stderr |-> "piped"]

(* FfprobeCommand::build_command *)
build_command(c) ==
    [binary |-> c.binary,
     args |-> <<<<"-","v">>, <<"q","u","i","e","t">>,
                <<"-","p","r","i","n","t","_","f","o","r","m","a","t">>, <<"j","s","o","n">>,
                <<"-","s","h","o","w","_","f","o","r","m","a","t">>,
                <<"-","s","h","o","w","_","s","t","r","e","a","m","s">>>>
              \o c.extra_args \o <<c.input>>,
     stdout |-> "piped", stderr |-> "piped"]

(* the part of FfprobeCommand::run after Command::output has returned *)
FfprobeCommand_run_result(c, output) ==
    IF ~success(output.code)
    THEN command_failed(display_path(c.binary), output.code, output.stderr)
    ELSE Ok(output)

ParseError(what) == [kind |-> "Parse", what |-> what]

JsonError(what) == [kind |-> "Json", what |-> what]

(* String::from_utf8(output.stdout).map_err(Error::Parse).  Captured stdout  *)
(* is [utf8, json]: whether the bytes are valid UTF-8, and the JSON document *)
(* the text is (or the value Malformed).                                     *)
StdoutText(r) ==
    IF r.tag # "Ok" THEN r
    ELSE IF ~r.value.stdout.utf8 THEN Err(ParseError("invalid utf-8"))
    ELSE Ok(r.value.stdout.json)

(* the part of ffprobe_json after cmd.run(): `?`, then String::from_utf8 *)
ffprobe_json_result(c, output) == StdoutText(FfprobeCommand_run_result(c, output))

-----------------------------------------------------------------------------
(* serde_json / serde derive, as used by probe.rs *)

(* JSON documents.  An object is a sequence of <<key, value>> members with   *)
(* distinct keys; a number is a sign, its integer digits and its fraction    *)
(* digits (none for an integer).                                             *)
Malformed == [t |-> "malformed"]

JNull == [t |-> "null"]

JBool(b) == [t |-> "bool", b |-> b]

JStr(str) == [t |-> "str", s |-> str]

JNum(neg, int, frac) == [t |-> "num", neg |-> neg, int |-> int, frac |-> frac]

JArr(items) == [t |-> "arr", items |-> items]

JObj(members) == [t |-> "obj", members |-> members]

(* the value under a key, if the object has the key *)
Member(members, key) ==
    IF \E i \in 1..Len(members) : members[i][1] = key
    THEN Some(members[CHOOSE i \in 1..Len(members) : members[i][1] = key][2])
    ELSE None

(* digit strings as numbers: without leading zeros, compared by length and   *)
(* then digit by digit                                                       *)
RECURSIVE StripLeadingZeros(_)
StripLeadingZeros(ds) ==
    IF Len(ds) > 1 /\ ds[1] = "0" THEN StripLeadingZeros(Tail(ds)) ELSE ds

DigitValue(ch) == (CHOOSE i \in 1..10 : Digits[i] = ch) - 1

RECURSIVE DigitsLessEq(_, _)
DigitsLessEq(a, b) ==
    IF Len(a) # Len(b) THEN Len(a) < Len(b)
    ELSE IF a = <<>> THEN TRUE
    ELSE IF a[1] # b[1] THEN DigitValue(a[1]) < DigitValue(b[1])
    ELSE DigitsLessEq(Tail(a), Tail(b))

U32_MAX == <<"4","2","9","4","9","6","7","2","9","5">>

U64_MAX == <<"1","8","4","4","6","7","4","4","0","7","3","7","0","9","5","5","1","6","1","5">>

(* Deserialize for String *)
de_string(v) == IF v.t = "str" THEN Ok(v.s) ELSE Err(JsonError("invalid type"))

(* Deserialize for u32: a JSON integer in 0..=u32::MAX *)
de_u32(v) ==
    IF v.t = "num" /\ ~v.neg /\ v.frac = <<>> /\ DigitsLessEq(StripLeadingZeros(v.int), U32_MAX)
    THEN Ok(StripLeadingZeros(v.int))
    ELSE Err(JsonError("invalid type or value"))

(* Deserialize for HashMap<String, String> *)
de_string_map(v) ==
    IF v.t = "obj" /\ \A i \in 1..Len(v.members) : v.members[i][2].t = "str"
    THEN Ok([i \in 1..Len(v.members) |-> <<v.members[i][1], v.members[i][2].s>>])
    ELSE Err(JsonError("invalid type"))

(* Some(value) around a deserialized value, an error as it is *)
WrapSome(r) == IF r.tag = "Ok" THEN Ok(Some(r.value)) ELSE r

(* Deserialize for Option<T> as a struct field: a missing key and null are   *)
(* None, anything else must deserialize as T                                 *)
de_option(m, De(_)) ==
    IF ~IsSome(m) \/ Unwrap(m).t = "null" THEN Ok(None) ELSE WrapSome(De(Unwrap(m)))

(* a derived struct reads a JSON object by key, or a JSON array by position  *)
(* (visit_seq): the array has the struct's fields in declaration order, and  *)
(* may stop early only before fields marked #[serde(default)]                *)
StructMembers(v, names, minLen) ==
    IF v.t = "obj" THEN Some(v.members)
    ELSE IF v.t = "arr" /\ Len(v.items) >= minLen /\ Len(v.items) <= Len(names)
    THEN Some([i \in 1..Len(v.items) |-> <<names[i], v.items[i]>>])
    ELSE None

AllOk(rs) == \A i \in 1..Len(rs) : rs[i].tag = "Ok"

FirstErr(rs) == rs[CHOOSE i \in 1..Len(rs) : rs[i].tag # "Ok" /\ \A j \in 1..(i - 1) : rs[j].tag = "Ok"]

(* the struct of the deserialized fields, or the first field's error *)
StructOf(names, rs) ==
    IF ~AllOk(rs) THEN FirstErr(rs)
    ELSE Ok([k \in {names[i] : i \in 1..Len(names)} |->
                rs[CHOOSE i \in 1..Len(names) : names[i] = k].value])

(* the Vec of the deserialized elements, or the first element's error *)
VecOf(rs) == IF ~AllOk(rs) THEN FirstErr(rs) ELSE Ok([i \in 1..Len(rs) |-> rs[i].value])

FfprobeOutputFields == <<"format", "streams">>

FfprobeOutputTypes == <<"Option<FfprobeFormat>", "Vec<FfprobeStream>">>

FfprobeFormatFields == <<"format_name", "format_long_name", "duration", "bit_rate", "size">>

FfprobeFormatTypes ==
    <<"Option<String>", "Option<String>", "Option<String>", "Option<String>", "Option<String>">>

FfprobeStreamFields == <<"codec_type", "codec_name", "width", "height", "bit_rate",
                         "avg_frame_rate", "channels", "sample_rate", "tags">>

FfprobeStreamTypes ==
    <<"Option<String>", "Option<String>", "Option<u32>", "Option<u32>", "Option<String>",
      "Option<String>", "Option<u32>", "Option<String>", "Option<HashMap<String, String>>">>

RECURSIVE de_field(_, _)

(* the fields of a derived struct, each deserialized as its declared type *)
ReadFields(ms, names, types) ==
    IF ~IsSome(ms) THEN <<Err(JsonError("invalid type"))>>
    ELSE [i \in 1..Len(names) |-> de_field(types[i], Member(Unwrap(ms), names[i]))]

(* #[derive(Deserialize)] struct FfprobeFormat: five Option<String> fields *)
de_FfprobeFormat(v) ==
    StructOf(FfprobeFormatFields,
             ReadFields(StructMembers(v, FfprobeFormatFields, 5), FfprobeFormatFields,
                        FfprobeFormatTypes))

(* #[derive(Deserialize)] struct FfprobeStream *)
de_FfprobeStream(v) ==
    StructOf(FfprobeStreamFields,
             ReadFields(StructMembers(v, FfprobeStreamFields, 9), FfprobeStreamFields,
                        FfprobeStreamTypes))

(* Deserialize for Vec<FfprobeStream> *)
de_streams(v) ==
    IF v.t # "arr" THEN Err(JsonError("invalid type"))
    ELSE VecOf([i \in 1..Len(v.items) |-> de_FfprobeStream(v.items[i])])

(* one field of a struct by its declared type; m is the member's value if    *)
(* the key is there.  streams has #[serde(default)]: an empty Vec when the   *)
(* key is missing.                                                           *)
de_field(ty, m) ==
    CASE ty = "Option<String>" -> de_option(m, de_string)
      [] ty = "Option<u32>" -> de_option(m, de_u32)
      [] ty = "Option<HashMap<String, String>>" -> de_option(m, de_string_map)
      [] ty = "Option<FfprobeFormat>" -> de_option(m, de_FfprobeFormat)
      [] ty = "Vec<FfprobeStream>" -> IF IsSome(m) THEN de_streams(Unwrap(m)) ELSE Ok(<<>>)

(* #[derive(Deserialize)] struct FfprobeOutput *)
de_FfprobeOutput(v) ==
    StructOf(FfprobeOutputFields,
             ReadFields(StructMembers(v, FfprobeOutputFields, 1), FfprobeOutputFields,
                        FfprobeOutputTypes))

(* serde_json::from_str::<FfprobeOutput> *)
from_str(json) ==
    IF json.t = "malformed" THEN Err(JsonError("syntax")) ELSE de_FfprobeOutput(json)

-----------------------------------------------------------------------------
(* str::parse for the number types probe.rs parses *)

DigitSet == {Digits[i] : i \in 1..10}

IsDigits(str) == \A i \in 1..Len(str) : str[i] \in DigitSet

(* the position of the first ch in str, 0 when there is none *)
IndexOf(str, ch) ==
    IF \E i \in 1..Len(str) : str[i] = ch
    THEN CHOOSE i \in 1..Len(str) : str[i] = ch /\ \A j \in 1..(i - 1) : str[j] # ch
    ELSE 0

(* an optional leading '+' is accepted by the unsigned integer parsers *)
UnsignedBody(str) == IF str # <<>> /\ str[1] = "+" THEN Tail(str) ELSE str

(* str::parse::<u64>().ok() *)
parse_digits(str, max) ==
    LET body == UnsignedBody(str)
    IN  IF body # <<>> /\ IsDigits(body) /\ DigitsLessEq(StripLeadingZeros(body), max)
        THEN Some(StripLeadingZeros(body))
        ELSE None

(* a parsed f64: finite (sign, integer digits, fraction digits), infinite or *)
(* NaN.  The digits are kept as written, so no precision is lost.            *)
Finite(neg, int, frac) == [kind |-> "fin", neg |-> neg, int |-> int, frac |-> frac]

Infinite(neg) == [kind |-> "inf", neg |-> neg, int |-> <<>>, frac |-> <<>>]

NaN == [kind |-> "nan", neg |-> FALSE, int |-> <<>>, frac |-> <<>>]

(* the digits without the zeros at their end *)
StripTrailingZeros(ds) ==
    LET keep == {i \in 1..Len(ds) : ds[i] # "0"}
    IN  IF keep = {} THEN <<>>
        ELSE SubSeq(ds, 1, CHOOSE i \in keep : \A j \in keep : j <= i)

(* n zeros; none when n is not positive *)
Zeros(n) == [i \in 1..(IF n > 0 THEN n ELSE 0) |-> "0"]

(* a small decimal exponent as an integer; longer exponents are far outside  *)
(* the range of f64 and are capped                                           *)
MaxExponent == 400

RECURSIVE DigitsToNat(_)
DigitsToNat(ds) ==
    IF ds = <<>> THEN 0 ELSE DigitsToNat(SubSeq(ds, 1, Len(ds) - 1)) * 10 + DigitValue(ds[Len(ds)])

ExponentValue(ds) ==
    LET n == StripLeadingZeros(ds)
    IN  IF Len(n) > 3 THEN MaxExponent
        ELSE IF DigitsToNat(n) > MaxExponent THEN MaxExponent ELSE DigitsToNat(n)

(* int.frac * 10^exp, as integer digits and fraction digits *)
Scale10(int, frac, exp) ==
    IF exp >= 0
    THEN LET all == int \o frac \o Zeros(exp - Len(frac))
             cut == Len(int) + exp
         IN  [int |-> SubSeq(all, 1, cut), frac |-> SubSeq(all, cut + 1, Len(all))]
    ELSE LET all == Zeros((-exp) - Len(int)) \o int \o frac
             cut == Len(all) - Len(frac) + exp
         IN  [int |-> SubSeq(all, 1, cut), frac |-> SubSeq(all, cut + 1, Len(all))]

(* the largest finite f64 has 309 integer digits *)
F64_MAX_DIGITS == 309

(* the digits of a decimal number with its exponent applied *)
Scaled(neg, sc) ==
    IF Len(StripLeadingZeros(sc.int)) > F64_MAX_DIGITS THEN Some(Infinite(neg))
    ELSE Some(Finite(neg, StripLeadingZeros(IF sc.int = <<>> THEN <<"0">> ELSE sc.int),
                     StripTrailingZeros(sc.frac)))

(* a mantissa split at its '.', and an exponent *)
Decimal(neg, ip, fp, e) ==
    IF ~(IsDigits(ip) /\ IsDigits(fp) /\ Len(ip) + Len(fp) > 0) THEN None
    ELSE Scaled(neg, Scale10(ip, fp, e))

Mantissa(neg, mant, dot, e) ==
    Decimal(neg, IF dot = 0 THEN mant ELSE SubSeq(mant, 1, dot - 1),
            IF dot = 0 THEN <<>> ELSE SubSeq(mant, dot + 1, Len(mant)), e)

(* the text behind the 'e': an optional sign and at least one digit *)
Exponent(neg, mant, etxt, edig) ==
    IF ~(edig # <<>> /\ IsDigits(edig)) THEN None
    ELSE Mantissa(neg, mant, IndexOf(mant, "."),
                  IF etxt[1] = "-" THEN 0 - ExponentValue(edig) ELSE ExponentValue(edig))

Number(neg, body, epos) ==
    IF epos = 0 THEN Mantissa(neg, body, IndexOf(body, "."), 0)
    ELSE IF epos = Len(body) THEN None
    ELSE Exponent(neg, SubSeq(body, 1, epos - 1), SubSeq(body, epos + 1, Len(body)),
                  IF body[epos + 1] \in {"+", "-"} THEN SubSeq(body, epos + 2, Len(body))
                  ELSE SubSeq(body, epos + 1, Len(body)))

Unsigned(neg, body, low) ==
    IF low = <<"i","n","f">> \/ low = <<"i","n","f","i","n","i","t","y">> THEN Some(Infinite(neg))
    ELSE IF low = <<"n","a","n">> THEN Some(NaN)
    ELSE Number(neg, body, IndexOf(low, "e"))

Signed(neg, body) == Unsigned(neg, body, to_lowercase(body))

(* str::parse::<f64>().ok(): [sign] (inf | infinity | nan | digits with an   *)
(* optional '.' and an optional exponent), at least one digit                *)
parse_f64(str) ==
    Signed(str # <<>> /\ str[1] = "-",
           IF str # <<>> /\ str[1] \in {"+", "-"} THEN Tail(str) ELSE str)

IsZero(x) == x.kind = "fin" /\ x.int = <<"0">> /\ x.frac = <<>>

(* Duration::from_secs_f64: panics on a negative, NaN, infinite or too large *)
(* value (-0.0 is not negative); the fraction is cut to nanoseconds.         *)
Duration_from_secs_f64(x) ==
    IF x.kind # "fin" \/ (x.neg /\ ~IsZero(x)) \/ ~DigitsLessEq(x.int, U64_MAX)
    THEN [panic |-> TRUE, value |-> None]
    ELSE [panic |-> FALSE,
          value |-> [secs |-> x.int, nanos |-> SubSeq(x.frac \o Zeros(9 - Len(x.frac)), 1, 9)]]

-----------------------------------------------------------------------------
(* probe.rs *)

(* Option::map(Duration::from_secs_f64); the panic, if any, unwinds *)
MapDuration(d) == IF d.panic THEN d ELSE [panic |-> FALSE, value |-> Some(d.value)]

AndThenDuration(x) ==
    IF ~IsSome(x) THEN [panic |-> FALSE, value |-> None]
    ELSE MapDuration(Duration_from_secs_f64(Unwrap(x)))

(* parse_duration: raw.and_then(parse f64).map(Duration::from_secs_f64) *)
parse_duration(raw) ==
    IF ~IsSome(raw) THEN [panic |-> FALSE, value |-> None]
    ELSE AndThenDuration(parse_f64(Unwrap(raw)))

(* parse_u64 *)
parse_u64(raw) == IF IsSome(raw) THEN parse_digits(Unwrap(raw), U64_MAX) ELSE None

(* parse_u32 *)
parse_u32(raw) == IF IsSome(raw) THEN parse_digits(Unwrap(raw), U32_MAX) ELSE None

(* den.abs() < f64::EPSILON, EPSILON = 2.220446049250313e-16 *)
EPSILON_FRAC == <<"0","0","0","0","0","0","0","0","0","0","0","0","0","0","0",
                  "2","2","2","0","4","4","6","0","4","9","2","5","0","3","1","3">>

RECURSIVE FracLess(_, _)
FracLess(a, b) ==
    IF b = <<>> THEN FALSE
    ELSE IF a = <<>> THEN \E i \in 1..Len(b) : b[i] # "0"
    ELSE IF a[1] # b[1] THEN DigitValue(a[1]) < DigitValue(b[1])
    ELSE FracLess(Tail(a), Tail(b))

BelowEpsilon(x) == x.kind = "fin" /\ x.int = <<"0">> /\ FracLess(x.frac, EPSILON_FRAC)

(* num / den of a "num/den" text, unless a part does not parse or den is 0 *)
Quotient(num, den) ==
    IF ~IsSome(num) THEN None
    ELSE IF ~IsSome(den) THEN None
    ELSE IF BelowEpsilon(Unwrap(den)) THEN None
    ELSE Some([num |-> Unwrap(num), den |-> Unwrap(den)])

Whole(x) ==
    IF IsSome(x) THEN Some([num |-> Unwrap(x), den |-> Finite(FALSE, <<"1">>, <<>>)]) ELSE None

Ratio(r, slash) ==
    IF r = <<"0","/","0">> \/ r = <<"0">> THEN None
    ELSE IF slash # 0
    THEN Quotient(parse_f64(SubSeq(r, 1, slash - 1)), parse_f64(SubSeq(r, slash + 1, Len(r))))
    ELSE Whole(parse_f64(r))

(* parse_ratio: the quotient is kept as its numerator and denominator *)
parse_ratio(raw) == IF ~IsSome(raw) THEN None ELSE Ratio(Unwrap(raw), IndexOf(Unwrap(raw), "/"))

FormatInfoWith(format, d) ==
    IF d.panic THEN [panic |-> TRUE, value |-> None]
    ELSE [panic |-> FALSE,
          value |-> FormatInfo_new(format.format_name, format.format_long_name, d.value,
                                   parse_u64(format.bit_rate), parse_u64(format.size))]

(* format_info_from_ffprobe; a panic of parse_duration unwinds through it *)
format_info_from_ffprobe(format) == FormatInfoWith(format, parse_duration(format.duration))

(* tags.as_ref().and_then(|tags| tags.get(key).cloned()) *)
Tag(tags, key) == IF IsSome(tags) THEN Member(Unwrap(tags), key) ELSE None

(* a dispatch that keeps an entry of any other tag as a data stream *)
StreamInfoWith_KeepOther(stream, ty, codec) ==
    IF ty = Some(<<"v","i","d","e","o">>)
    THEN Some([kind |-> "Video", codec |-> codec, width |-> stream.width,
               height |-> stream.height, bit_rate |-> parse_u64(stream.bit_rate),
               frame_rate |-> parse_ratio(stream.avg_frame_rate)])
    ELSE IF ty = Some(<<"a","u","d","i","o">>)
    THEN Some([kind |-> "Audio", codec |-> codec, channels |-> stream.channels,
               sample_rate |-> parse_u32(stream.sample_rate),
               bit_rate |-> parse_u64(stream.bit_rate)])
    ELSE IF ty = Some(<<"s","u","b","t","i","t","l","e">>)
    THEN Some([kind |-> "Subtitle", codec |-> codec, language |-> Tag(stream.tags, "language")])
    ELSE Some([kind |-> "Data", codec |-> codec, description |-> Tag(stream.tags, "title")])

(* the match on stream.codec_type.as_deref() *)
StreamInfoWith(stream, ty, codec) ==
    IF ty = Some(<<"v","i","d","e","o">>)
    THEN Some([kind |-> "Video", codec |-> codec, width |-> stream.width,
               height |-> stream.height, bit_rate |-> parse_u64(stream.bit_rate),
               frame_rate |-> parse_ratio(stream.avg_frame_rate)])
    ELSE IF ty = Some(<<"a","u","d","i","o">>)
    THEN Some([kind |-> "Audio", codec |-> codec, channels |-> stream.channels,
               sample_rate |-> parse_u32(stream.sample_rate),
               bit_rate |-> parse_u64(stream.bit_rate)])
    ELSE IF ty = Some(<<"s","u","b","t","i","t","l","e">>)
    THEN Some([kind |-> "Subtitle", codec |-> codec, language |-> Tag(stream.tags, "language")])
    ELSE IF ty = Some(<<"d","a","t","a">>)
    THEN Some([kind |-> "Data", codec |-> codec, description |-> Tag(stream.tags, "title")])
    ELSE None

(* stream_info_from_ffprobe *)
stream_info_from_ffprobe(stream) ==
    StreamInfoWith(stream, stream.codec_type,
                   IF IsSome(stream.codec_name) THEN from_name(Unwrap(stream.codec_name))
                   ELSE [tag |-> "Other", name |-> <<"u","n","k","n","o","w","n">>])

(* Some(info) as a one-element list, None as the empty list *)
Kept(y) == IF IsSome(y) THEN <<Unwrap(y)>> ELSE <<>>

(* streams.into_iter().filter_map(stream_info_from_ffprobe).collect() *)
RECURSIVE collect_streams(_)
collect_streams(xs) ==
    IF xs = <<>> THEN <<>>
    ELSE Kept(stream_info_from_ffprobe(Head(xs))) \o collect_streams(Tail(xs))

ProbeResultWith(format, streams) ==
    IF format.panic THEN Panicked ELSE Ok(ProbeResult_new(format.value, streams))

(* data.format.map(format_info_from_ffprobe).unwrap_or_else(FormatInfo::new) *)
(* and the stream list                                                       *)
ProbeResultOf(data) ==
    IF data.tag # "Ok" THEN data
    ELSE ProbeResultWith(IF IsSome(data.value.format)
                         THEN format_info_from_ffprobe(Unwrap(data.value.format))
                         ELSE [panic |-> FALSE,
                               value |-> FormatInfo_new(None, None, None, None, None)],
                         collect_streams(data.value.streams))

(* parse_probe_output *)
parse_probe_output(json) == ProbeResultOf(from_str(json))

(* ffprobe_json(paths, path)?, then parse_probe_output(&json) *)
AndThenParse(json) == IF json.tag # "Ok" THEN json ELSE parse_probe_output(json.value)

(* the part of probe_with_binaries after the prober has ended *)
probe_with_binaries_result(c, output) == AndThenParse(ffprobe_json_result(c, output))

-----------------------------------------------------------------------------
(* transcode.rs: TranscodeBuilder *)

(* TranscodeBuilder::new: Default with overwrite enabled *)
new ==
    [binaries |-> None, input |-> None, output |-> None,
     video_codec |-> None, audio_codec |-> None,
     video_bitrate |-> None, audio_bitrate |-> None,
     frame_rate |-> None, preset |-> None,
     video_filters |-> <<>>, audio_filters |-> <<>>, extra_args |-> <<>>,
     overwrite |-> TRUE]

with_binaries(b, paths) == [b EXCEPT !.binaries = Some(paths)]

with_locator(b, locator) == [b EXCEPT !.binaries = Some(binaries(locator))]

input(b, path) == [b EXCEPT !.input = Some(path)]

output(b, path) == [b EXCEPT !.output = Some(path)]

video_codec(b, codec) == [b EXCEPT !.video_codec = Some(codec)]

audio_codec(b, codec) == [b EXCEPT !.audio_codec = Some(codec)]

video_bitrate(b, kbps) == [b EXCEPT !.video_bitrate = Some(kbps)]

audio_bitrate(b, kbps) == [b EXCEPT !.audio_bitrate = Some(kbps)]

frame_rate(b, fps) == [b EXCEPT !.frame_rate = Some(fps)]

(* a preset call that also forgets the video codec *)
preset_ForgetsCodec(b, name) == [b EXCEPT !.preset = Some(name), !.video_codec = None]

preset(b, name) == [b EXCEPT !.preset = Some(name)]

add_video_filter(b, filter) == [b EXCEPT !.video_filters = Append(@, filter)]

add_audio_filter(b, filter) == [b EXCEPT !.audio_filters = Append(@, filter)]

size(b, width, height) ==
    add_video_filter(b, [tag |-> "Scale", width |-> width, height |-> height])

extra_arg(b, a) == [b EXCEPT !.extra_args = Append(@, a)]

overwrite(b, enabled) == [b EXCEPT !.overwrite = enabled]

(* the accessors of TranscodeBuilder; as_deref leaves the value as it is *)
input_path(b) == b.input

output_path(b) == b.output

video_codec_ref(b) == b.video_codec

audio_codec_ref(b) == b.audio_codec

video_bitrate_value(b) == b.video_bitrate

audio_bitrate_value(b) == b.audio_bitrate

frame_rate_value(b) == b.frame_rate

preset_value(b) == b.preset

overwrite_enabled(b) == b.overwrite

video_filters(b) == b.video_filters

audio_filters(b) == b.audio_filters

MsgInputRequired ==
    <<"i","n","p","u","t"," ","p","a","t","h"," ","i","s"," ","r","e","q","u","i","r","e","d">>

MsgOutputRequired ==
    <<"o","u","t","p","u","t"," ","p","a","t","h"," ","i","s"," ","r","e","q","u","i","r","e","d">>

(* binaries resolved by discovery even when the builder was given some *)
resolve_binaries_AlwaysDiscover(bins, onPath) ==
    LET r == system(onPath)
    IN  [res |-> IF r.tag = "Err" THEN r ELSE Ok(binaries(r.value)), discovered |-> 1]

(* TranscodeBuilder::resolve_binaries; discovered says whether               *)
(* FfmpegLocator::system was called                                          *)
resolve_binaries(bins, onPath) ==
    IF IsSome(bins) THEN [res |-> Ok(Unwrap(bins)), discovered |-> 0]
    ELSE LET r == system(onPath)
         IN  [res |-> IF r.tag = "Err" THEN r ELSE Ok(binaries(r.value)), discovered |-> 1]

(* validate resolving the binaries before it looks at the paths *)
validate_BinariesFirst(b, onPath) ==
    LET r == resolve_binaries(b.binaries, onPath)
    IN  IF r.res.tag = "Err" THEN r
        ELSE IF ~IsSome(b.input)
        THEN [res |-> Err(InvalidInput(MsgInputRequired)), discovered |-> r.discovered]
        ELSE IF ~IsSome(b.output)
        THEN [res |-> Err(InvalidInput(MsgOutputRequired)), discovered |-> r.discovered]
        ELSE [res |-> Ok([b EXCEPT !.binaries = r.res.value,
                                   !.input = Unwrap(b.input),
                                   !.output = Unwrap(b.output)]),
              discovered |-> r.discovered]

(* validate looking at the output path before the input path *)
validate_OutputFirst(b, onPath) ==
    IF ~IsSome(b.output)
    THEN [res |-> Err(InvalidInput(MsgOutputRequired)), discovered |-> 0]
    ELSE IF ~IsSome(b.input)
    THEN [res |-> Err(InvalidInput(MsgInputRequired)), discovered |-> 0]
    ELSE LET r == resolve_binaries(b.binaries, onPath)
         IN  IF r.res.tag = "Err" THEN r
             ELSE [res |-> Ok([b EXCEPT !.binaries = r.res.value,
                                        !.input = Unwrap(b.input),
                                        !.output = Unwrap(b.output)]),
                   discovered |-> r.discovered]

(* TranscodeBuilder::validate *)
validate(b, onPath) ==
    IF ~IsSome(b.input)
    THEN [res |-> Err(InvalidInput(MsgInputRequired)), discovered |-> 0]
    ELSE IF ~IsSome(b.output)
    THEN [res |-> Err(InvalidInput(MsgOutputRequired)), discovered |-> 0]
    ELSE LET r == resolve_binaries(b.binaries, onPath)
         IN  IF r.res.tag = "Err" THEN r
             ELSE [res |-> Ok([b EXCEPT !.binaries = r.res.value,
                                        !.input = Unwrap(b.input),
                                        !.output = Unwrap(b.output)]),
                   discovered |-> r.discovered]

-----------------------------------------------------------------------------
(* transcode.rs: ValidatedTranscode::run *)

(* cmd.arg(if self.overwrite { "-y" } else { "-n" }) *)
OverwriteArg(c, v) == arg(c, IF v.overwrite THEN <<"-","y">> ELSE <<"-","n">>)

(* cmd.arg("-i").arg(&self.input) *)
InputArgs(c, v) == arg(arg(c, <<"-","i">>), v.input)

(* if let Some(x) = field { cmd.arg(flag).arg(text of x) } *)
FlagIfSome(c, flag, opt) == IF IsSome(opt) THEN arg(arg(c, flag), Unwrap(opt)) ELSE c

(* format!("{kbps}k") *)
Kbps(opt) == IF IsSome(opt) THEN Some(Append(DecStr(Unwrap(opt)), "k")) ELSE None

(* format!("{fps}") *)
Fps(opt) == IF IsSome(opt) THEN Some(FormatFloat(Unwrap(opt))) ELSE None

(* SettingArgs with the video bitrate rendered before the codecs *)
SettingArgs_BitrateFirst(c, v) ==
    LET c1 == FlagIfSome(c, <<"-","b",":","v">>, Kbps(v.video_bitrate))
        c2 == FlagIfSome(c1, <<"-","c",":","v">>, v.video_codec)
        c3 == FlagIfSome(c2, <<"-","c",":","a">>, v.audio_codec)
        c4 == FlagIfSome(c3, <<"-","b",":","a">>, Kbps(v.audio_bitrate))
        c5 == FlagIfSome(c4, <<"-","r">>, Fps(v.frame_rate))
    IN  FlagIfSome(c5, <<"-","p","r","e","s","e","t">>, v.preset)

(* the six optional settings, in the order of the if-lets *)
SettingArgs(c, v) ==
    LET c1 == FlagIfSome(c, <<"-","c",":","v">>, v.video_codec)
        c2 == FlagIfSome(c1, <<"-","c",":","a">>, v.audio_codec)
        c3 == FlagIfSome(c2, <<"-","b",":","v">>, Kbps(v.video_bitrate))
        c4 == FlagIfSome(c3, <<"-","b",":","a">>, Kbps(v.audio_bitrate))
        c5 == FlagIfSome(c4, <<"-","r">>, Fps(v.frame_rate))
    IN  FlagIfSome(c5, <<"-","p","r","e","s","e","t">>, v.preset)

(* VideoFilterArgs without the is_empty test *)
VideoFilterArgs_NoEmptyTest(c, v) ==
    LET vf_strings == [i \in 1..Len(v.video_filters) |->
                          VideoFilter_to_filter_string(v.video_filters[i])]
    IN  arg(arg(c, <<"-","v","f">>), Join(vf_strings, <<",">>))

(* VideoFilterArgs with one -vf flag for each filter *)
VideoFilterArgs_FlagPerFilter(c, v) ==
    IF v.video_filters = <<>> THEN c
    ELSE [c EXCEPT !.args = c.args \o
             [i \in 1..(2 * Len(v.video_filters)) |->
                 IF i % 2 = 1 THEN <<"-","v","f">>
                 ELSE VideoFilter_to_filter_string(v.video_filters[i \div 2])]]

(* the video filter chain: vf_strings and the -vf flag *)
VideoFilterArgs(c, v) ==
    LET vf_strings == [i \in 1..Len(v.video_filters) |->
                          VideoFilter_to_filter_string(v.video_filters[i])]
    IN  IF vf_strings # <<>>
        THEN arg(arg(c, <<"-","v","f">>), Join(vf_strings, <<",">>))
        ELSE c

(* the audio filter chain: af_strings and the -af flag *)
AudioFilterArgs(c, v) ==
    LET af_strings == [i \in 1..Len(v.audio_filters) |->
                          AudioFilter_to_filter_string(v.audio_filters[i])]
    IN  IF af_strings # <<>>
        THEN arg(arg(c, <<"-","a","f">>), Join(af_strings, <<",">>))
        ELSE c

(* for arg in self.extra_args { cmd.arg(arg) } *)
RECURSIVE ExtraArgsLoop(_, _)
ExtraArgsLoop(c, extra) ==
    IF extra = <<>> THEN c ELSE ExtraArgsLoop(arg(c, Head(extra)), Tail(extra))

(* cmd.arg(&self.output) *)
OutputArg(c, v) == arg(c, v.output)

(* the FfmpegCommand that ValidatedTranscode::run builds before cmd.run() *)
ValidatedTranscode_command(v) ==
    LET c0 == FfmpegCommand_new(v.binaries.ffmpeg)
        c1 == OverwriteArg(c0, v)
        c2 == InputArgs(c1, v)
        c3 == SettingArgs(c2, v)
        c4 == VideoFilterArgs(c3, v)
        c5 == AudioFilterArgs(c4, v)
        c6 == ExtraArgsLoop(c5, v.extra_args)
    IN  OutputArg(c6, v)

-----------------------------------------------------------------------------
(* The values the configuration calls, the environment and the external     *)
(* process are drawn from.                                                   *)

MaxCalls == 5

InputPaths == {<<"i","n",".","a","v","i">>, <<"a",".","m","k","v">>}

OutputPaths == {<<"o","u","t",".","m","p","4">>}

VideoCodecs == {<<"l","i","b","x","2","6","4">>, <<"c","o","p","y">>}

AudioCodecs == {<<"a","a","c">>}

VideoBitrates == {2500, 800}

AudioBitrates == {128}

FrameRates == {Flt(FALSE, 30, <<>>), Flt(FALSE, 29, <<"9","7">>)}

Presets == {<<"m","e","d","i","u","m">>}

ExtraArgValues == {<<"-","a","n">>, <<"-","v","f">>}

Sizes == {<<1280, 720>>}

BuilderVideoFilters == {[tag |-> "Deinterlace"], [tag |-> "Denoise", strength |-> "Medium"]}

BuilderAudioFilters == {[tag |-> "Volume", vol |-> Flt(FALSE, 0, <<"5">>)],
                        [tag |-> "HighPass", frequency |-> Flt(FALSE, 80, <<>>)]}

SuppliedBinaries ==
    {with_paths(<<"/","o","p","t","/","f","f","m","p","e","g">>,
                <<"/","o","p","t","/","f","f","p","r","o","b","e">>),
     with_paths(<<"/","x",InvalidUnit,"/","f","f","m","p","e","g">>,
                <<"/","x",InvalidUnit,"/","f","f","p","r","o","b","e">>),
     with_paths(<<"/","g","o","n","e","/","f","f","m","p","e","g">>,
                <<"/","o","p","t","/","f","f","p","r","o","b","e">>),
     with_paths(<<"/","o","p","t","/","f","f","m","p","e","g">>,
                <<"/","g","o","n","e","/","f","f","p","r","o","b","e">>)}

PathStates == [ffmpeg : BOOLEAN, ffprobe : BOOLEAN]

ExitCodes == {Some(0), Some(1), None}

StderrSamples ==
    {<<>>,
     <<Rle("ascii", 20)>>,
     <<Rle("ascii", MAX + 1)>>,
     <<Rle("ascii", MAX - 1), Rle("two", 1)>>}

(* JSON reports of the prober *)
FormatMembers ==
    <<<<"format_name", JStr(<<"m","o","v",",","m","p","4">>)>>,
      <<"format_long_name", JStr(<<"Q","u","i","c","k","T","i","m","e"," ","/"," ","M","O","V">>)>>,
      <<"duration", JStr(<<"1","2",".","5">>)>>,
      <<"bit_rate", JStr(<<"8","0","0","0","0","0">>)>>,
      <<"size", JStr(<<"1","2","5","0","0","0","0">>)>>>>

VideoMembers ==
    <<<<"codec_type", JStr(<<"v","i","d","e","o">>)>>,
      <<"codec_name", JStr(<<"h","2","6","4">>)>>,
      <<"width", JNum(FALSE, <<"1","9","2","0">>, <<>>)>>,
      <<"height", JNum(FALSE, <<"1","0","8","0">>, <<>>)>>,
      <<"bit_rate", JStr(<<"4","0","0","0","0","0","0">>)>>,
      <<"avg_frame_rate", JStr(<<"3","0","0","0","0","/","1","0","0","1">>)>>>>

AudioMembers ==
    <<<<"codec_type", JStr(<<"a","u","d","i","o">>)>>,
      <<"codec_name", JStr(<<"a","a","c">>)>>,
      <<"channels", JNum(FALSE, <<"2">>, <<>>)>>,
      <<"sample_rate", JStr(<<"4","8","0","0","0">>)>>,
      <<"bit_rate", JStr(<<"1","2","8","0","0","0">>)>>>>

SubtitleMembers ==
    <<<<"codec_type", JStr(<<"s","u","b","t","i","t","l","e">>)>>,
      <<"codec_name", JStr(<<"s","u","b","r","i","p">>)>>,
      <<"tags", JObj(<<<<"language", JStr(<<"e","n","g">>)>>>>)>>>>

DataMembers ==
    <<<<"codec_type", JStr(<<"d","a","t","a">>)>>,
      <<"tags", JObj(<<<<"title", JStr(<<"t","i","m","e","c","o","d","e">>)>>>>)>>>>

AttachmentMembers ==
    <<<<"codec_type", JStr(<<"a","t","t","a","c","h","m","e","n","t">>)>>,
      <<"codec_name", JStr(<<"t","t","f">>)>>>>

UnknownMembers ==
    <<<<"codec_type", JStr(<<"u","n","k","n","o","w","n">>)>>,
      <<"codec_name", JStr(<<"h","e","v","c">>)>>>>

UntaggedMembers == <<<<"codec_name", JStr(<<"o","p","u","s">>)>>>>

(* the members with the value under key replaced, or the member added *)
WithMember(members, key, value) ==
    IF \E i \in 1..Len(members) : members[i][1] = key
    THEN [i \in 1..Len(members) |-> IF members[i][1] = key THEN <<key, value>> ELSE members[i]]
    ELSE Append(members, <<key, value>>)

Report(format, streams) == JObj(<<<<"format", JObj(format)>>, <<"streams", JArr(streams)>>>>)

(* values of every JSON type, for any key *)
FieldValues ==
    {JNull, JBool(TRUE), JNum(FALSE, <<"1","9","2","0">>, <<>>), JNum(TRUE, <<"1">>, <<>>),
     JNum(FALSE, <<"1">>, <<"5">>), JNum(FALSE, <<"4","2","9","4","9","6","7","2","9","6">>, <<>>),
     JStr(<<"a","b","c">>), JStr(<<"V","i","d","e","o">>), JStr(<<>>), JArr(<<>>), JObj(<<>>),
     JObj(<<<<"language", JStr(<<"e","n","g">>)>>>>), JObj(<<<<"language", JNum(FALSE, <<"1">>, <<>>)>>>>)}

(* texts of numbers, as the prober writes durations, rates and sizes *)
NumberTexts ==
    {JStr(<<"1","9","2","0">>), JStr(<<"-","1">>), JStr(<<"n","a","n">>), JStr(<<"i","n","f">>), JStr(<<"1","e","4","0","0">>), JStr(<<"0","/","0">>),
     JStr(<<"3","0","/","0">>), JStr(<<"2","4","/","1">>), JStr(<<"+","7">>), JStr(<<"1","2",".","5">>), JStr(<<"0">>), JStr(<<"1","8","4","4","6","7","4","4","0","7","3","7","0","9","5","5","1","6","1","6">>)}

FormatKeys == {FfprobeFormatFields[i] : i \in 1..Len(FfprobeFormatFields)}

StreamKeys == {FfprobeStreamFields[i] : i \in 1..Len(FfprobeStreamFields)}

ReportSamples ==
    {Report(FormatMembers, <<JObj(VideoMembers), JObj(AttachmentMembers), JObj(AudioMembers),
                             JObj(SubtitleMembers), JObj(DataMembers)>>),
     Report(FormatMembers, <<JObj(UntaggedMembers), JObj(UnknownMembers), JObj(VideoMembers),
                             JObj(WithMember(AudioMembers, "codec_type", JNull)),
                             JObj(WithMember(VideoMembers, "codec_type", JStr(<<"V","i","d","e","o">>))),
                             JObj(AudioMembers)>>),
     Report(FormatMembers, <<JObj(UnknownMembers), JObj(UntaggedMembers)>>),
     JObj(<<>>), JObj(<<<<"format", JNull>>>>), JObj(<<<<"streams", JNull>>>>),
     JObj(<<<<"streams", JArr(<<JObj(VideoMembers)>>)>>, <<"programs", JArr(<<>>)>>>>),
     JArr(<<JNull>>), JArr(<<JNull, JArr(<<JObj(AudioMembers)>>)>>), JArr(<<>>), JNull,
     JNum(FALSE, <<"1">>, <<>>)}
    \cup {Report(WithMember(FormatMembers, k, v), <<JObj(AudioMembers)>>) :
             k \in FormatKeys, v \in FieldValues \cup NumberTexts}
    \cup {Report(FormatMembers, <<JObj(WithMember(VideoMembers, k, v))>>) :
             k \in StreamKeys \cup {"codec_long_name"}, v \in FieldValues \cup NumberTexts}

(* captured stdout: whether the bytes are UTF-8, and the JSON text they are *)
EmptyStdout == [utf8 |-> TRUE, json |-> Malformed]

StdoutSamples ==
    {EmptyStdout, [utf8 |-> FALSE, json |-> Malformed]}
    \cup {[utf8 |-> TRUE, json |-> j] : j \in ReportSamples}

MaxProbeArgs == 2

ProbeArgValues == {<<"-","s","e","l","e","c","t","_","s","t","r","e","a","m","s">>, <<"v",":","0">>}

NoOutput == [code |-> None, stderr |-> <<>>, stdout |-> EmptyStdout]

NoProcess == [st |-> "none", command |-> None, output |-> NoOutput]

(* no invocations in flight *)
NoJobs == [invocations |-> <<>>, processes |-> <<>>]

-----------------------------------------------------------------------------
(* The life of one transcode request *)

TranscodeInit ==
    /\ jobs = NoJobs
    /\ call = NoCall
    /\ returned = NoResult
    /\ prober = None
    /\ pphase = "Unused"
    /\ builder = new
    /\ phase = "Empty"
    /\ nCalls = 0
    /\ validated = None
    /\ cmd = None
    /\ proc = NoProcess
    /\ spawns = 0
    /\ validations = 0
    /\ discoveries = 0
    /\ result = NoResult

(* run(&self): a terminal call that leaves the builder usable *)
Owned_NotConsumed == TRUE

(* a builder that has not been consumed by run(self) can still be called *)
Owned == phase \in {"Empty", "Configuring"}

Configure(b) ==
    /\ Owned
    /\ nCalls < MaxCalls
    /\ builder' = b
    /\ phase' = "Configuring"
    /\ nCalls' = nCalls + 1
    /\ UNCHANGED <<jobs, call, returned, prober, pphase, validated, cmd, proc, spawns, validations, discoveries, result>>

CallWithBinaries == \E p \in SuppliedBinaries : Configure(with_binaries(builder, p))

CallWithLocator == \E p \in SuppliedBinaries : Configure(with_locator(builder, from_paths(p)))

(* with_locator on a locator made by FfmpegLocator::with_paths(..)?; when   *)
(* that returns the error there is no locator to pass on                    *)
CallWithCheckedLocator ==
    \E p \in SuppliedBinaries :
        /\ FfmpegLocator_with_paths(p.ffmpeg, p.ffprobe).tag = "Ok"
        /\ Configure(with_locator(builder, FfmpegLocator_with_paths(p.ffmpeg, p.ffprobe).value))

CallInput == \E p \in InputPaths : Configure(input(builder, p))

CallOutput == \E p \in OutputPaths : Configure(output(builder, p))

CallVideoCodec == \E x \in VideoCodecs : Configure(video_codec(builder, x))

CallAudioCodec == \E x \in AudioCodecs : Configure(audio_codec(builder, x))

CallVideoBitrate == \E x \in VideoBitrates : Configure(video_bitrate(builder, x))

CallAudioBitrate == \E x \in AudioBitrates : Configure(audio_bitrate(builder, x))

CallFrameRate == \E x \in FrameRates : Configure(frame_rate(builder, x))

CallPreset == \E x \in Presets : Configure(preset(builder, x))

CallSize == \E wh \in Sizes : Configure(size(builder, wh[1], wh[2]))

CallAddVideoFilter == \E f \in BuilderVideoFilters : Configure(add_video_filter(builder, f))

CallAddAudioFilter == \E f \in BuilderAudioFilters : Configure(add_audio_filter(builder, f))

CallExtraArg == \E a \in ExtraArgValues : Configure(extra_arg(builder, a))

CallOverwrite == \E e \in BOOLEAN : Configure(overwrite(builder, e))

(* TranscodeBuilder::run, its first statement: self.validate()?.  run takes  *)
(* self by value, so the builder is gone afterwards.                         *)
Validate ==
    /\ Owned
    /\ \E onPath \in PathStates :
         LET v == validate(builder, onPath)
         IN  /\ validations' = validations + 1
             /\ discoveries' = discoveries + v.discovered
             /\ IF v.res.tag = "Err"
                THEN /\ phase' = "Rejected"
                     /\ result' = v.res
                     /\ validated' = None
                ELSE /\ phase' = "Validated"
                     /\ result' = result
                     /\ validated' = Some(v.res.value)
    /\ UNCHANGED <<jobs, call, returned, prober, pphase, builder, nCalls, cmd, proc, spawns>>

(* whether the operating system starts a process of the binary: never when  *)
(* the file does not exist, and not always when it does                     *)
CanStart(binary) == IF path_exists(binary) THEN BOOLEAN ELSE {FALSE}

(* ValidatedTranscode::run up to the spawn inside Command::output: the       *)
(* command is built, and the operating system either starts the process or   *)
(* refuses (an io::Error, returned through `?`).                             *)
Execute ==
    /\ phase = "Validated"
    /\ cmd' = Some(ValidatedTranscode_command(Unwrap(validated)))
    /\ \E started \in CanStart(Unwrap(validated).binaries.ffmpeg) :
         IF started
         THEN /\ proc' = [st |-> "running", output |-> NoOutput,
                           command |-> Some(spawn_command(ValidatedTranscode_command(Unwrap(validated))))]
              /\ spawns' = spawns + 1
              /\ phase' = "Running"
              /\ result' = result
         ELSE /\ proc' = proc
              /\ spawns' = spawns
              /\ phase' = "Executed"
              /\ result' = Err(Io("spawn"))
    /\ UNCHANGED <<jobs, call, returned, prober, pphase, builder, nCalls, validated, validations, discoveries>>

(* the external process ends: an exit status, what it wrote to stderr and,   *)
(* when its stdout is a pipe, what it wrote there                           *)
ProcessExit ==
    /\ proc.st = "running"
    /\ \E code \in ExitCodes, err \in StderrSamples,
          out \in IF Unwrap(proc.command).stdout = "piped" THEN StdoutSamples ELSE {EmptyStdout} :
         proc' = [proc EXCEPT !.st = "exited",
                              !.output = [code |-> code, stderr |-> err, stdout |-> out]]
    /\ UNCHANGED <<jobs, call, returned, builder, phase, nCalls, validated, cmd, spawns, validations,
                   discoveries, result, prober, pphase>>

(* Command::output returns the Output; FfmpegCommand::run maps the status *)
Finish ==
    /\ phase = "Running"
    /\ proc.st = "exited"
    /\ result' = FfmpegCommand_run_result(Unwrap(cmd), proc.output)
    /\ phase' = "Executed"
    /\ UNCHANGED <<jobs, call, returned, prober, pphase, builder, nCalls, validated, cmd, proc, spawns, validations, discoveries>>
-----------------------------------------------------------------------------
(* The life of one probe request *)

ProbeInit ==
    /\ jobs = NoJobs
    /\ call = NoCall
    /\ returned = NoResult
    /\ prober = None
    /\ pphase = "Idle"
    /\ builder = new
    /\ phase = "Unused"
    /\ nCalls = 0
    /\ validated = None
    /\ cmd = None
    /\ proc = NoProcess
    /\ spawns = 0
    /\ validations = 0
    /\ discoveries = 0
    /\ result = NoResult

Init == TranscodeInit \/ ProbeInit

(* probe(path): FfmpegLocator::system()?, then probe_with_locator up to      *)
(* FfprobeCommand::new inside ffprobe_json                                   *)
Probe ==
    /\ pphase = "Idle"
    /\ \E path \in InputPaths, onPath \in PathStates :
         LET locator == system(onPath)
         IN  /\ discoveries' = discoveries + 1
             /\ IF locator.tag = "Err"
                THEN /\ result' = locator
                     /\ prober' = prober
                     /\ pphase' = "Done"
                ELSE /\ result' = result
                     /\ prober' = Some([via |-> "probe",
                                        command |-> FfprobeCommand_new(binaries(locator.value).ffprobe, path)])
                     /\ pphase' = "Built"
    /\ UNCHANGED <<jobs, call, returned, builder, phase, nCalls, validated, cmd, proc, spawns, validations>>

(* probe_with_locator / probe_with_binaries up to FfprobeCommand::new *)
ProbeWithBinaries ==
    /\ pphase = "Idle"
    /\ \E path \in InputPaths, paths \in SuppliedBinaries :
         prober' = Some([via |-> "probe",
                         command |-> FfprobeCommand_new(binaries(from_paths(paths)).ffprobe, path)])
    /\ pphase' = "Built"
    /\ UNCHANGED <<jobs, call, returned, builder, phase, nCalls, validated, cmd, proc, spawns, validations,
                   discoveries, result>>

(* FfprobeCommand::new called by the library's user *)
CommandNew ==
    /\ pphase = "Idle"
    /\ \E path \in InputPaths, paths \in SuppliedBinaries :
         prober' = Some([via |-> "command", command |-> FfprobeCommand_new(paths.ffprobe, path)])
    /\ pphase' = "Built"
    /\ UNCHANGED <<jobs, call, returned, builder, phase, nCalls, validated, cmd, proc, spawns, validations,
                   discoveries, result>>

(* FfprobeCommand::arg *)
CommandArg ==
    /\ pphase = "Built"
    /\ Unwrap(prober).via = "command"
    /\ Len(Unwrap(prober).command.extra_args) < MaxProbeArgs
    /\ \E a \in ProbeArgValues :
         prober' = Some([Unwrap(prober) EXCEPT !.command = FfprobeCommand_arg(@, a)])
    /\ UNCHANGED <<jobs, call, returned, builder, phase, nCalls, validated, cmd, proc, spawns, validations,
                   discoveries, result, pphase>>

(* a run that spawns the prober again after a failed attempt *)
ProbeSpawn_Retry ==
    /\ \/ pphase = "Built"
       \/ pphase = "Done" /\ IsSome(prober) /\ result.tag # "Ok" /\ spawns < 2
    /\ proc' = [st |-> "running", output |-> NoOutput,
                command |-> Some(build_command(Unwrap(prober).command))]
    /\ spawns' = spawns + 1
    /\ pphase' = "Running"
    /\ result' = result
    /\ UNCHANGED <<jobs, call, returned, builder, phase, nCalls, validated, cmd, validations,
                   discoveries, prober>>

(* FfprobeCommand::run up to the spawn inside Command::output *)
ProbeSpawn ==
    /\ pphase = "Built"
    /\ \E started \in CanStart(Unwrap(prober).command.binary) :
         IF started
         THEN /\ proc' = [st |-> "running", output |-> NoOutput,
                          command |-> Some(build_command(Unwrap(prober).command))]
              /\ spawns' = spawns + 1
              /\ pphase' = "Running"
              /\ result' = result
         ELSE /\ proc' = proc
              /\ spawns' = spawns
              /\ pphase' = "Done"
              /\ result' = Err(Io("spawn"))
    /\ UNCHANGED <<jobs, call, returned, builder, phase, nCalls, validated, cmd, validations, discoveries, prober>>

(* Command::output returns; FfprobeCommand::run maps the status and, on the  *)
(* probe path, ffprobe_json and parse_probe_output read the captured stdout  *)
ProbeFinish ==
    /\ pphase = "Running"
    /\ proc.st = "exited"
    /\ result' = IF Unwrap(prober).via = "probe"
                 THEN probe_with_binaries_result(Unwrap(prober).command, proc.output)
                 ELSE FfprobeCommand_run_result(Unwrap(prober).command, proc.output)
    /\ pphase' = "Done"
    /\ UNCHANGED <<jobs, call, returned, builder, phase, nCalls, validated, cmd, proc, spawns, validations,
                   discoveries, prober>>

Next ==
    \/ CallWithBinaries
    \/ CallWithLocator
    \/ CallWithCheckedLocator
    \/ CallInput
    \/ CallOutput
    \/ CallVideoCodec
    \/ CallAudioCodec
    \/ CallVideoBitrate
    \/ CallAudioBitrate
    \/ CallFrameRate
    \/ CallPreset
    \/ CallSize
    \/ CallAddVideoFilter
    \/ CallAddAudioFilter
    \/ CallExtraArg
    \/ CallOverwrite
    \/ Validate
    \/ Execute
    \/ ProcessExit
    \/ Finish
    \/ Probe
    \/ ProbeWithBinaries
    \/ CommandNew
    \/ CommandArg
    \/ ProbeSpawn
    \/ ProbeFinish

Spec == Init /\ [][Next]_vars

-----------------------------------------------------------------------------
(* Properties of the transcode request *)

TheCommand == Unwrap(cmd)

TheRequest == Unwrap(validated)

(* <<flag, value>> when the field is set, nothing otherwise *)
Segment(flag, opt) == IF IsSome(opt) THEN <<flag, Unwrap(opt)>> ELSE <<>>

(* the rendered filter fragments of a list, joined with ',' *)
VideoChain(filters) ==
    Join([i \in 1..Len(filters) |-> VideoFilter_to_filter_string(filters[i])], <<",">>)

AudioChain(filters) ==
    Join([i \in 1..Len(filters) |-> AudioFilter_to_filter_string(filters[i])], <<",">>)

(* the argument layout of the specification, written as one concatenation *)
Layout(v) ==
    <<IF v.overwrite THEN <<"-","y">> ELSE <<"-","n">>>>
    \o <<<<"-","i">>, v.input>>
    \o Segment(<<"-","c",":","v">>, v.video_codec)
    \o Segment(<<"-","c",":","a">>, v.audio_codec)
    \o Segment(<<"-","b",":","v">>,
               IF IsSome(v.video_bitrate) THEN Some(DecStr(Unwrap(v.video_bitrate)) \o <<"k">>) ELSE None)
    \o Segment(<<"-","b",":","a">>,
               IF IsSome(v.audio_bitrate) THEN Some(DecStr(Unwrap(v.audio_bitrate)) \o <<"k">>) ELSE None)
    \o Segment(<<"-","r">>,
               IF IsSome(v.frame_rate) THEN Some(FormatFloat(Unwrap(v.frame_rate))) ELSE None)
    \o Segment(<<"-","p","r","e","s","e","t">>, v.preset)
    \o (IF v.video_filters = <<>> THEN <<>> ELSE <<<<"-","v","f">>, VideoChain(v.video_filters)>>)
    \o (IF v.audio_filters = <<>> THEN <<>> ELSE <<<<"-","a","f">>, AudioChain(v.audio_filters)>>)
    \o v.extra_args
    \o <<v.output>>

(* C1: for every validated request the rendered argument sequence is        *)
(* exactly: -y (overwrite enabled, the default of new) or -n; -i <input>;   *)
(* then, each only when set, -c:v, -c:a, -b:v <n>k, -b:a <n>k, -r, -preset; *)
(* then -vf <chain>, -af <chain>; then the extra raw arguments in insertion *)
(* order; and the output path last.                                         *)
C1_ArgumentLayout ==
    /\ new.overwrite = TRUE
    /\ IsSome(cmd) /\ IsSome(validated) =>
         /\ TheCommand.args = Layout(TheRequest)
         /\ TheRequest.input = Unwrap(builder.input)
         /\ TheRequest.output = Unwrap(builder.output)
         /\ \A f \in {"video_codec", "audio_codec", "video_bitrate", "audio_bitrate",
                      "frame_rate", "preset", "video_filters", "audio_filters",
                      "extra_args", "overwrite"} : TheRequest[f] = builder[f]

C1_Witness ==
    /\ IsSome(cmd) /\ IsSome(validated)
    /\ ~builder.overwrite
    /\ IsSome(builder.video_bitrate)
    /\ builder.extra_args # <<>>
    /\ Len(TheCommand.args) = 7

(* C2: run on a builder whose input or output path is unset returns the     *)
(* invalid-input error and spawns no process, whatever else was configured; *)
(* with both paths set, validation never reports invalid input, whichever   *)
(* other fields are unset.                                                  *)
C2_MissingPathRejected ==
    validations > 0 =>
        IF ~IsSome(builder.input) \/ ~IsSome(builder.output)
        THEN /\ phase = "Rejected"
             /\ result.tag = "Err"
             /\ result.error.kind = "InvalidInput"
             /\ spawns = 0
             /\ proc.st = "none"
             /\ cmd = None
        ELSE ~(result.tag = "Err" /\ result.error.kind = "InvalidInput")

C2_Witness ==
    /\ phase = "Rejected"
    /\ result.tag = "Err"
    /\ result.error.kind = "InvalidInput"
    /\ IsSome(builder.input)
    /\ ~IsSome(builder.output)
    /\ IsSome(builder.video_codec)
    /\ IsSome(builder.binaries)

C2_WitnessOptionalUnset ==
    /\ phase = "Executed"
    /\ result = Ok(Unit)
    /\ nCalls = 2

(* the steps a builder's life may take *)
LifeSteps ==
    {<<"Empty", "Configuring">>, <<"Configuring", "Configuring">>,
     <<"Empty", "Validated">>, <<"Configuring", "Validated">>,
     <<"Empty", "Rejected">>, <<"Configuring", "Rejected">>,
     <<"Validated", "Running">>, <<"Validated", "Executed">>,
     <<"Running", "Executed">>}

(* C3: a builder's life follows Empty -> Configuring -> Validated ->        *)
(* Executed.  Configuration changes the builder only before the terminal    *)
(* call; the terminal call is taken at most once and validates exactly      *)
(* once; a process is spawned only from the Validated state; a request      *)
(* that fails validation ends there.                                        *)
C3_Lifecycle ==
    /\ [](validations <= 1)
    /\ [](phase \in {"Validated", "Running", "Executed", "Rejected"} <=> validations = 1)
    /\ [][ /\ (phase' # phase => <<phase, phase'>> \in LifeSteps)
           /\ (builder' # builder \/ nCalls' # nCalls =>
                  phase \in {"Empty", "Configuring"} /\ phase' = "Configuring"
                  /\ validations' = 0)
           /\ (validations' # validations =>
                  phase \in {"Empty", "Configuring"} /\ phase' \in {"Validated", "Rejected"})
           /\ (phase # "Unused" /\ (spawns' # spawns \/ cmd' # cmd) => phase = "Validated")
         ]_vars

C3_Witness ==
    /\ phase = "Executed"
    /\ validations = 1
    /\ spawns = 1
    /\ nCalls = 4

(* the arguments the renderer emitted itself: all but the raw extra         *)
(* arguments and the output path behind them                                *)
RenderedFlags == SubSeq(TheCommand.args, 1, Len(TheCommand.args) - Len(TheRequest.extra_args) - 1)

Positions(seq, x) == {i \in 1..Len(seq) : seq[i] = x}

(* the characters of a fragment list with one ',' between neighbours *)
RECURSIVE Interleave(_)
Interleave(frags) ==
    IF Len(frags) = 0 THEN <<>>
    ELSE IF Len(frags) = 1 THEN frags[1]
    ELSE Interleave(SubSeq(frags, 1, Len(frags) - 1)) \o <<",">> \o frags[Len(frags)]

(* C5: among the rendered arguments -vf is present iff the video filter     *)
(* list is non-empty and -af iff the audio filter list is non-empty; each   *)
(* occurs once and its value is that list's fragments in insertion order    *)
(* joined with ','; -vf carries only video fragments and -af only audio     *)
(* fragments; size(w, h) contributes scale=<w>:<h> at the position of its   *)
(* call among the video filters.                                            *)
C5_FilterFlags ==
    IsSome(cmd) /\ IsSome(validated) =>
        LET vfs == builder.video_filters
            afs == builder.audio_filters
            vpos == Positions(RenderedFlags, <<"-","v","f">>)
            apos == Positions(RenderedFlags, <<"-","a","f">>)
        IN  /\ (vpos # {}) <=> (vfs # <<>>)
            /\ (apos # {}) <=> (afs # <<>>)
            /\ Cardinality(vpos) <= 1 /\ Cardinality(apos) <= 1
            /\ \A i \in vpos :
                 RenderedFlags[i + 1] =
                    Interleave([k \in 1..Len(vfs) |-> VideoFilter_to_filter_string(vfs[k])])
            /\ \A i \in apos :
                 RenderedFlags[i + 1] =
                    Interleave([k \in 1..Len(afs) |-> AudioFilter_to_filter_string(afs[k])])
            /\ \A i \in vpos, j \in apos : i + 1 < j
            /\ \A k \in 1..Len(vfs) :
                 vfs[k].tag = "Scale" =>
                    VideoFilter_to_filter_string(vfs[k]) =
                       <<"s","c","a","l","e","=">> \o DecStr(vfs[k].width) \o <<":">> \o DecStr(vfs[k].height)

C5_Witness ==
    /\ IsSome(cmd) /\ IsSome(validated)
    /\ Len(builder.video_filters) = 2
    /\ builder.video_filters[2].tag = "Scale"
    /\ builder.video_filters[1].tag = "Deinterlace"
    /\ Len(builder.audio_filters) = 1
    /\ <<"y","a","d","i","f",",","s","c","a","l","e","=","1","2","8","0",":","7","2","0">>
          \in {TheCommand.args[i] : i \in 1..Len(TheCommand.args)}

-----------------------------------------------------------------------------
(* Properties of process execution, for transcode and probe requests alike *)

(* the invocation has reached process execution *)
Reached == phase \in {"Running", "Executed"} \/ (pphase \in {"Running", "Done"} /\ IsSome(prober))

(* the invocation has returned to its caller *)
Returned == phase \in {"Executed", "Rejected"} \/ pphase = "Done"

(* the command this invocation runs *)
OwnCommand ==
    IF phase = "Unused" THEN build_command(Unwrap(prober).command)
    ELSE spawn_command(Unwrap(cmd))

(* C4: an invocation that reaches process execution spawns exactly one      *)
(* process (none when the operating system refuses the spawn, which is      *)
(* returned as the I/O error), the process is the invocation's own command, *)
(* the call returns only after that process has exited, and once a result   *)
(* has been returned it is final: the result does not change and nothing    *)
(* is spawned again.                                                        *)
C4_SingleAttempt ==
    /\ [](spawns <= 1)
    /\ [](spawns = 1 <=> proc.st # "none")
    /\ [](spawns = 1 => Reached /\ proc.command = Some(OwnCommand))
    /\ [](Returned <=> result # NoResult)
    /\ [](Returned /\ Reached =>
            \/ spawns = 1 /\ proc.st = "exited"
            \/ spawns = 0 /\ result = Err(Io("spawn")))
    /\ [][ /\ (spawns' # spawns => spawns' = spawns + 1 /\ ~Returned /\ proc'.st = "running")
           /\ (result # NoResult => result' = result /\ spawns' = spawns /\ proc' = proc)
         ]_vars

C4_Witness ==
    /\ pphase = "Done"
    /\ spawns = 1
    /\ proc.st = "exited"
    /\ proc.output.code = Some(1)
    /\ result.tag = "Err"
    /\ result.error.kind = "ProcessingError"

C4_WitnessTranscode ==
    /\ phase = "Executed"
    /\ spawns = 1
    /\ proc.st = "exited"
    /\ proc.output.code = None
    /\ result.tag = "Err"

(* a is the first ByteLen(a) bytes of text *)
IsPrefixOf(a, text) ==
    /\ ByteLen(a) <= ByteLen(text)
    /\ is_char_boundary(text, ByteLen(a))
    /\ Prefix(text, ByteLen(a)) = a

(* message is the decoded standard error, or a prefix of it and an ellipsis *)
CarriesStderr(message, stderr) ==
    \/ message = from_utf8_lossy(stderr)
    \/ /\ message # <<>>
       /\ message[Len(message)] = Rle("ellipsis", 1)
       /\ IsPrefixOf(SubSeq(message, 1, Len(message) - 1), from_utf8_lossy(stderr))

(* C6: a transcoder or prober process that ends with a non-success status   *)
(* (a non-zero exit code, or none) yields the process-failed error carrying *)
(* the text of the binary that was run, the exit code when there is one,    *)
(* and the captured standard error; a process that exits with status zero   *)
(* yields success (for FfprobeCommand::run: the captured output).           *)
C6_ProcessFailed ==
    Returned /\ proc.st = "exited" =>
        IF proc.output.code = Some(0)
        THEN /\ phase = "Executed" => result = Ok(Unit)
             /\ pphase = "Done" /\ Unwrap(prober).via = "command" =>
                    /\ result.tag = "Ok"
                    /\ result.value.stdout = proc.output.stdout
             /\ pphase = "Done" => ~(result.tag = "Err" /\ result.error.kind = "ProcessingError")
        ELSE /\ result.tag = "Err"
             /\ result.error.kind = "ProcessingError"
             /\ result.error.binary = display_path(Unwrap(proc.command).binary)
             /\ result.error.exit_code = proc.output.code
             /\ CarriesStderr(result.error.message, proc.output.stderr)

(* a JSON report of the shape {format: {...}?, streams: [{...}, ...]?}:      *)
(* whatever the values of the fields inside format and the stream entries   *)
IsReport(json) ==
    /\ json.t = "obj"
    /\ \A i \in 1..Len(json.members) :
          /\ json.members[i][1] = "format" => json.members[i][2].t \in {"obj", "null"}
          /\ json.members[i][1] = "streams" =>
                /\ json.members[i][2].t = "arr"
                /\ \A k \in 1..Len(json.members[i][2].items) :
                      json.members[i][2].items[k].t = "obj"

(* C10: probe parsing of a well-formed JSON report never fails because of a *)
(* single field: whatever JSON value a field of the format object or of a   *)
(* stream entry has (missing, of an unexpected type, unparseable), the      *)
(* parse returns a ProbeResult.                                             *)
C10_FieldLeniency ==
    /\ pphase = "Done"
    /\ IsSome(prober) /\ Unwrap(prober).via = "probe"
    /\ proc.st = "exited"
    /\ proc.output.code = Some(0)
    /\ proc.output.stdout.utf8
    /\ IsReport(proc.output.stdout.json)
    => result.tag = "Ok"

(* the stream entries of a JSON report *)
RawStreams(json) ==
    IF IsSome(Member(json.members, "streams")) THEN Unwrap(Member(json.members, "streams")).items
    ELSE <<>>

(* the stream kind a codec_type tag stands for *)
KindOfTag(tag) ==
    CASE tag = <<"v","i","d","e","o">> -> "Video"
      [] tag = <<"a","u","d","i","o">> -> "Audio"
      [] tag = <<"s","u","b","t","i","t","l","e">> -> "Subtitle"
      [] tag = <<"d","a","t","a">> -> "Data"
      [] OTHER -> "none"

(* the text under a key of a JSON object, when there is a text *)
RawText(entry, key) ==
    IF IsSome(Member(entry.members, key)) /\ Unwrap(Member(entry.members, key)).t = "str"
    THEN Some(Unwrap(Member(entry.members, key)).s)
    ELSE None

(* the entry's codec_type is one of video, audio, subtitle, data *)
HasKnownTag(entry) ==
    IsSome(RawText(entry, "codec_type")) /\ KindOfTag(Unwrap(RawText(entry, "codec_type"))) # "none"

(* the codec of a raw entry: of its codec_name, "unknown" without one *)
RawCodec(entry) ==
    IF IsSome(RawText(entry, "codec_name")) THEN from_name(Unwrap(RawText(entry, "codec_name")))
    ELSE [tag |-> "Other", name |-> <<"u","n","k","n","o","w","n">>]

(* streams is kept, entry by entry and in order: the kind of each tag and    *)
(* the codec of each entry                                                  *)
StreamsAre(streams, kept) ==
    /\ Len(streams) = Len(kept)
    /\ \A i \in 1..Len(kept) :
          /\ streams[i].kind = KindOfTag(Unwrap(RawText(kept[i], "codec_type")))
          /\ streams[i].codec = RawCodec(kept[i])

(* the report with the codec_type of every stream entry set to "video" *)
Retagged(json) ==
    JObj(WithMember(json.members, "streams",
                    JArr([i \in 1..Len(RawStreams(json)) |->
                             JObj(WithMember(RawStreams(json)[i].members, "codec_type",
                                             JStr(<<"v","i","d","e","o">>)))])))

(* the codec_type of every stream entry is a text, null or missing *)
TagsAreText(json) ==
    \A i \in 1..Len(RawStreams(json)) :
        IsSome(Member(RawStreams(json)[i].members, "codec_type")) =>
            Unwrap(Member(RawStreams(json)[i].members, "codec_type")).t \in {"str", "null"}

(* a probe request that ran the prober to a zero exit and read a report *)
ProbedReport ==
    /\ pphase = "Done"
    /\ IsSome(prober) /\ Unwrap(prober).via = "probe"
    /\ proc.st = "exited"
    /\ proc.output.code = Some(0)
    /\ proc.output.stdout.utf8
    /\ IsReport(proc.output.stdout.json)

(* C11: the streams of a ProbeResult are exactly the report's stream        *)
(* entries whose codec_type is video, audio, subtitle or data, in reported  *)
(* order, each of the kind of its tag; an entry whose codec_type is missing *)
(* or any other text is dropped: it raises no error (the parse ends as it   *)
(* does when every entry is tagged "video") and the entries around it are   *)
(* kept as they are.                                                        *)
C11_StreamsFiltered ==
    ProbedReport =>
        /\ result.tag = "Ok" =>
               StreamsAre(result.value.streams,
                          SelectSeq(RawStreams(proc.output.stdout.json), HasKnownTag))
        /\ TagsAreText(proc.output.stdout.json) =>
               result.tag = parse_probe_output(Retagged(proc.output.stdout.json)).tag

C11_Witness ==
    /\ ProbedReport
    /\ result.tag = "Ok"
    /\ Len(RawStreams(proc.output.stdout.json)) = 6
    /\ Len(result.value.streams) = 2
    /\ result.value.streams[1].kind = "Video"
    /\ result.value.streams[2].kind = "Audio"
    /\ ~HasKnownTag(RawStreams(proc.output.stdout.json)[1])
    /\ ~HasKnownTag(RawStreams(proc.output.stdout.json)[5])

(* the six fixed arguments of every prober invocation *)
FixedProbeArgs ==
    <<<<"-","v">>, <<"q","u","i","e","t">>, <<"-","p","r","i","n","t","_","f","o","r","m","a","t">>,
      <<"j","s","o","n">>, <<"-","s","h","o","w","_","f","o","r","m","a","t">>,
      <<"-","s","h","o","w","_","s","t","r","e","a","m","s">>>>

(* the prober process of this probe request *)
ProberProcess == Unwrap(proc.command)

ProbeReturned ==
    /\ pphase = "Done"
    /\ IsSome(prober) /\ Unwrap(prober).via = "probe"
    /\ proc.st = "exited"

IsError(r, kinds) == r.tag = "Err" /\ r.error.kind \in kinds

(* C16: probing is all-or-nothing.  A prober that ends with a non-success   *)
(* status yields the process-failed error, whatever it wrote to its         *)
(* standard output; captured output that is not valid UTF-8, is not valid   *)
(* JSON, or is not a JSON object of the shape of a report yields a parse    *)
(* failure; and a ProbeResult is returned in none of these cases.           *)
C16_AllOrNothing ==
    ProbeReturned =>
        /\ proc.output.code # Some(0) => IsError(result, {"ProcessingError"})
        /\ proc.output.code = Some(0) /\ ~proc.output.stdout.utf8 => IsError(result, {"Parse"})
        /\ proc.output.code = Some(0) /\ proc.output.stdout.utf8
              /\ ~IsReport(proc.output.stdout.json) => IsError(result, {"Parse", "Json"})
        /\ result.tag = "Ok" =>
              /\ proc.output.code = Some(0)
              /\ proc.output.stdout.utf8
              /\ IsReport(proc.output.stdout.json)

C14_WitnessNotFound ==
    /\ phase = "Rejected"
    /\ discoveries = 1
    /\ result.tag = "Err" /\ result.error.kind = "FFmpegNotFound"
    /\ spawns = 0

C14_WitnessSupplied ==
    /\ phase = "Executed"
    /\ IsSome(builder.binaries)
    /\ discoveries = 0
    /\ spawns = 1
    /\ nCalls = 4

(* C13: however explicit ffmpeg / ffprobe paths are supplied                 *)
(* (FfmpegLocator::with_paths, FfmpegLocator::from_paths,                    *)
(* FfmpegBinaryPaths::with_paths, and through them with_binaries and        *)
(* with_locator), they are accepted only when both files exist: a builder   *)
(* never holds, validation never passes on, and no command is built from,   *)
(* a supplied path that does not exist.                                     *)
C13_ExplicitPathsVerified ==
    /\ IsSome(builder.binaries) =>
           path_exists(Unwrap(builder.binaries).ffmpeg) /\ path_exists(Unwrap(builder.binaries).ffprobe)
    /\ IsSome(validated) =>
           path_exists(Unwrap(validated).binaries.ffmpeg) /\ path_exists(Unwrap(validated).binaries.ffprobe)
    /\ IsSome(cmd) => path_exists(Unwrap(cmd).binary)
    /\ IsSome(prober) => path_exists(Unwrap(prober).command.binary)

-----------------------------------------------------------------------------
(* Calls of the pure functions, outside any request *)

NoRequest ==
    /\ builder = new
    /\ phase = "Unused"
    /\ nCalls = 0
    /\ validated = None
    /\ cmd = None
    /\ proc = NoProcess
    /\ spawns = 0
    /\ validations = 0
    /\ discoveries = 0
    /\ result = NoResult
    /\ prober = None
    /\ pphase = "Unused"

requestVars == <<builder, phase, nCalls, validated, cmd, proc, spawns, validations,
                 discoveries, result, prober, pphase, jobs>>

Call(fn, x) == [fn |-> fn, arg |-> x]

-----------------------------------------------------------------------------
(* error.rs: truncate and Error::command_failed on captured bytes *)

RunOf(k, n) == IF n = 0 THEN <<>> ELSE <<Rle(k, n)>>

(* concatenation that keeps neighbouring runs of one kind merged *)
Merge(a, b) ==
    IF a # <<>> /\ b # <<>> /\ a[Len(a)].k = b[1].k
    THEN SubSeq(a, 1, Len(a) - 1) \o <<Rle(b[1].k, a[Len(a)].n + b[1].n)>> \o Tail(b)
    ELSE a \o b

ByteKinds == {"ascii", "two", "three", "four", "bad"}

(* lengths around MAX for the bytes before the character that straddles it *)
HeadLens == {0, 10, MAX - 3, MAX - 2, MAX - 1, MAX, MAX + 1}

TailLens == {0, 1, 5}

StderrBytes ==
    {Merge(Merge(RunOf("ascii", a), RunOf(k, n)), RunOf("ascii", c)) :
        a \in HeadLens, k \in ByteKinds, n \in 0..2, c \in TailLens}
    \cup {RunOf(k, n) : k \in ByteKinds, n \in {MAX \div 4, MAX \div 3, MAX \div 2,
                                                 (MAX \div 3) + 1, (MAX \div 2) + 1, MAX + 1}}

(* Error::FilterError *)
FilterError(msg) == [kind |-> "FilterError", msg |-> msg]

(* Error::TimeoutError *)
TimeoutError(msg) == [kind |-> "Timeout", msg |-> msg]

(* Error::Unsupported *)
Unsupported(msg) == [kind |-> "Unsupported", msg |-> msg]

(* str::contains(&str) *)
contains(str, pat) ==
    \E i \in 0..(Len(str) - Len(pat)) : SubSeq(str, i + 1, i + Len(pat)) = pat

AdviceInput == <<"e","n","s","u","r","e"," ","i","n","p","u","t"," ","f","i","l","e"," ","e","x","i","s","t","s"," ","a","n","d"," ","p","a","t","h"," ","i","s"," ","c","o","r","r","e","c","t">>

AdviceOutput == <<"e","n","s","u","r","e"," ","o","u","t","p","u","t"," ","d","i","r","e","c","t","o","r","y"," ","e","x","i","s","t","s">>

AdviceParameters == <<"c","h","e","c","k"," ","y","o","u","r"," ","p","a","r","a","m","e","t","e","r","s">>

AdviceProcessing == <<"c","h","e","c","k"," ","F","F","m","p","e","g"," ","i","s"," ","i","n","s","t","a","l","l","e","d"," ","a","n","d"," ","y","o","u","r"," ","p","a","r","a","m","e","t","e","r","s"," ","a","r","e"," ","v","a","l","i","d">>

AdviceVersion == <<"c","h","e","c","k"," ","F","F","m","p","e","g"," ","v","e","r","s","i","o","n"," ","s","u","p","p","o","r","t","s"," ","t","h","i","s"," ","f","i","l","t","e","r">>

AdviceSyntax == <<"r","e","v","i","e","w"," ","f","i","l","t","e","r"," ","p","a","r","a","m","e","t","e","r","s"," ","a","n","d"," ","s","y","n","t","a","x">>

(* a suggestion that looks for "output path" before "input path" *)
suggestion_OutputFirst(e) ==
    CASE e.kind = "FFmpegNotFound" -> e.suggestion
      [] e.kind = "InvalidInput" ->
            IF contains(e.msg, <<"o","u","t","p","u","t"," ","p","a","t","h">>) THEN Some(AdviceOutput)
            ELSE IF contains(e.msg, <<"i","n","p","u","t"," ","p","a","t","h">>) THEN Some(AdviceInput)
            ELSE Some(AdviceParameters)
      [] e.kind = "ProcessingError" -> Some(AdviceProcessing)
      [] e.kind = "FilterError" ->
            IF contains(e.msg, <<"u","n","s","u","p","p","o","r","t","e","d">>)
               \/ contains(e.msg, <<"n","o","t"," ","s","u","p","p","o","r","t","e","d">>)
            THEN Some(AdviceVersion)
            ELSE Some(AdviceSyntax)
      [] OTHER -> None

(* Error::suggestion *)
suggestion(e) ==
    CASE e.kind = "FFmpegNotFound" -> e.suggestion
      [] e.kind = "InvalidInput" ->
            IF contains(e.msg, <<"i","n","p","u","t"," ","p","a","t","h">>) THEN Some(AdviceInput)
            ELSE IF contains(e.msg, <<"o","u","t","p","u","t"," ","p","a","t","h">>) THEN Some(AdviceOutput)
            ELSE Some(AdviceParameters)
      [] e.kind = "ProcessingError" -> Some(AdviceProcessing)
      [] e.kind = "FilterError" ->
            IF contains(e.msg, <<"u","n","s","u","p","p","o","r","t","e","d">>)
               \/ contains(e.msg, <<"n","o","t"," ","s","u","p","p","o","r","t","e","d">>)
            THEN Some(AdviceVersion)
            ELSE Some(AdviceSyntax)
      [] OTHER -> None

InvalidInputMessages ==
    {<<"i","n","p","u","t"," ","p","a","t","h"," ","i","s"," ","r","e","q","u","i","r","e","d">>,
     <<"o","u","t","p","u","t"," ","p","a","t","h"," ","i","s"," ","r","e","q","u","i","r","e","d">>,
     <<"c","o","d","e","c"," ","i","s"," ","i","n","v","a","l","i","d">>,
     <<"n","o"," ","o","u","t","p","u","t"," ","p","a","t","h"," ","a","n","d"," ","n","o"," ","i","n","p","u","t"," ","p","a","t","h">>,
     <<"I","n","p","u","t"," ","P","a","t","h"," ","i","s"," ","r","e","q","u","i","r","e","d">>,
     <<"i","n","p","u","t","p","a","t","h">>,
     <<"o","u","t","p","u","t"," ","p","a","t","h">>,
     <<"i","n","p","u","t"," ","p","a","t">>,
     <<>>}

FilterMessages ==
    {<<"f","i","l","t","e","r"," ","n","o","t"," ","s","u","p","p","o","r","t","e","d"," ","b","y"," ","F","F","m","p","e","g"," ","v","e","r","s","i","o","n">>,
     <<"u","n","s","u","p","p","o","r","t","e","d"," ","f","i","l","t","e","r">>,
     <<"b","a","d"," ","s","y","n","t","a","x">>,
     <<"U","n","s","u","p","p","o","r","t","e","d">>,
     <<"n","o","t","s","u","p","p","o","r","t","e","d">>,
     <<"n","o","t"," "," ","s","u","p","p","o","r","t","e","d">>,
     <<>>}

ErrorSamples ==
    {FFmpegNotFound(None), FFmpegNotFound(Some("install ffmpeg with brew")),
     auto([ffmpeg |-> FALSE, ffprobe |-> TRUE]).error, auto([ffmpeg |-> TRUE, ffprobe |-> FALSE]).error,
     Io("spawn"), Io("create_dir_all"), JsonError("invalid type"), ParseError("utf8")}
    \cup {InvalidInput(m) : m \in InvalidInputMessages \cup {MsgInputRequired, MsgOutputRequired}}
    \cup {FilterError(m) : m \in FilterMessages}
    \cup {ProcessingError(WhichFfmpeg, c, m) : c \in {Some(1), None}, m \in InvalidInputMessages}
    \cup {TimeoutError(m) : m \in InvalidInputMessages \cup FilterMessages}
    \cup {Unsupported(m) : m \in InvalidInputMessages \cup FilterMessages}

InitError ==
    /\ NoRequest
    /\ jobs = NoJobs
    /\ returned = NoResult
    /\ call \in {Call("truncate", b) : b \in StderrBytes}
               \cup {Call("command_failed", [binary |-> WhichFfmpeg, exit_code |-> c, stderr |-> b]) :
                        c \in {Some(1), None}, b \in StderrBytes}
               \cup {Call("suggestion", e) : e \in ErrorSamples}

(* the String truncate returns, or its panic *)
TruncateOutcome(r) == IF r.panic THEN Panicked ELSE Ok(r.text)

CallTruncate ==
    /\ call.fn = "truncate"
    /\ returned = NoResult
    /\ returned' = TruncateOutcome(truncate(call.arg))
    /\ UNCHANGED <<call, requestVars>>

CallCommandFailed ==
    /\ call.fn = "command_failed"
    /\ returned = NoResult
    /\ returned' = command_failed(call.arg.binary, call.arg.exit_code, call.arg.stderr)
    /\ UNCHANGED <<call, requestVars>>

(* error.suggestion() *)
CallSuggestion ==
    /\ call.fn = "suggestion"
    /\ returned = NoResult
    /\ returned' = Ok(suggestion(call.arg))
    /\ UNCHANGED <<call, requestVars>>

NextError == CallTruncate \/ CallCommandFailed \/ CallSuggestion

SpecError == InitError /\ [][NextError]_vars

(* the first n characters of a text *)
RECURSIVE FirstChars(_, _)
FirstChars(text, n) ==
    IF n = 0 \/ text = <<>> THEN <<>>
    ELSE IF n < text[1].n THEN <<Rle(text[1].k, n)>>
    ELSE <<text[1]>> \o FirstChars(Tail(text), n - text[1].n)

(* the message the specification describes for a captured standard error *)
First4096Characters(text) ==
    IF CharLen(text) > MAX THEN PushChar(FirstChars(text, MAX), "ellipsis") ELSE text

(* the message of a returned value: of truncate's String, or of the error *)
MessageOf(r) == IF call.fn = "truncate" THEN r.value ELSE r.error.message

StderrOf(c) == IF c.fn = "truncate" THEN c.arg ELSE c.arg.stderr

(* C7: the diagnostic message is the captured standard error truncated to   *)
(* at most 4096 characters, with the ellipsis marker appended exactly when  *)
(* truncation occurred; standard error of 4096 characters or fewer is       *)
(* carried unchanged with no marker.                                        *)
C7_TruncatedTo4096Characters ==
    call.fn \in {"truncate", "command_failed"} /\ returned # NoResult =>
        /\ returned.tag \in {"Ok", "Err"}
        /\ MessageOf(returned) = First4096Characters(from_utf8_lossy(StderrOf(call)))

-----------------------------------------------------------------------------
(* filter.rs: rendering of single filters and of filter chains *)

FloatSamples ==
    {Flt(FALSE, 0, <<>>), Flt(FALSE, 1, <<"5">>), Flt(TRUE, 16, <<>>), Flt(FALSE, 8000, <<>>),
     Flt(TRUE, 0, <<"0","5">>), FltNaN, FltInf(FALSE), FltInf(TRUE)}

OptFloatSamples == {None, Some(Flt(FALSE, 1, <<"5">>)), Some(Flt(TRUE, 16, <<>>)), Some(FltNaN)}

DegreeSamples ==
    {Flt(FALSE, 90, <<>>), Flt(TRUE, 45, <<>>), Flt(FALSE, 0, <<>>), Flt(FALSE, 360, <<>>),
     FltNaN, FltInf(TRUE)}

TimeSamples == {from_seconds(0), from_seconds(3661), Duration(59, 999999999)}

DimensionSamples == {0, 720, 1280}

VideoFilterSamples ==
    {[tag |-> "Scale", width |-> w, height |-> h] : w \in DimensionSamples, h \in DimensionSamples}
    \cup {[tag |-> "Trim", start |-> a, end |-> e] :
             a \in TimeSamples, e \in {None} \cup {Some(t) : t \in TimeSamples}}
    \cup {[tag |-> "Crop", width |-> w, height |-> h, x |-> x, y |-> x] :
             w \in DimensionSamples, h \in {720}, x \in {0, 16}}
    \cup {[tag |-> "Rotate", degrees |-> d] : d \in DegreeSamples}
    \cup {[tag |-> "Flip", direction |-> d] : d \in {"h", "v", "x", ","}}
    \cup {[tag |-> "BrightnessContrast", brightness |-> b, contrast |-> c] :
             b \in OptFloatSamples, c \in OptFloatSamples}
    \cup {[tag |-> "Denoise", strength |-> x] : x \in {"Light", "Medium", "Heavy"}}
    \cup {[tag |-> "Deinterlace"]}
    \cup {[tag |-> "Custom", raw |-> r] :
             r \in {<<"n","u","l","l">>, <<"h","f","l","i","p",",","v","f","l","i","p">>}}

AudioFilterSamples ==
    {[tag |-> "Volume", vol |-> x] : x \in FloatSamples}
    \cup {[tag |-> "Equalizer", bass |-> b, mid |-> m, treble |-> t] :
             b \in OptFloatSamples, m \in OptFloatSamples, t \in OptFloatSamples}
    \cup {[tag |-> "Normalization", target_level |-> x] : x \in FloatSamples}
    \cup {[tag |-> "HighPass", frequency |-> x] : x \in FloatSamples}
    \cup {[tag |-> "LowPass", frequency |-> x] : x \in FloatSamples}
    \cup {[tag |-> "Custom", raw |-> r] :
             r \in {<<"a","n","u","l","l">>, <<"a","n","u","l","l",",","a","n","u","l","l">>}}

(* the filters that chains are built from, and how long a chain gets *)
MaxChain == 3

ChainVideoFilters ==
    {[tag |-> "Deinterlace"], [tag |-> "Scale", width |-> 1280, height |-> 720],
     [tag |-> "Custom", raw |-> <<"h","f","l","i","p",",","v","f","l","i","p">>]}

ChainAudioFilters ==
    {[tag |-> "Volume", vol |-> Flt(FALSE, 1, <<"5">>)],
     [tag |-> "Normalization", target_level |-> Flt(TRUE, 16, <<>>)],
     [tag |-> "Equalizer", bass |-> Some(Flt(FALSE, 1, <<"5">>)), mid |-> None,
      treble |-> Some(Flt(TRUE, 16, <<>>))],
     [tag |-> "Custom", raw |-> <<"a","n","u","l","l">>]}

Chains(filters) == UNION {[1..n -> filters] : n \in 1..MaxChain}

InitFilter ==
    /\ NoRequest
    /\ jobs = NoJobs
    /\ returned = NoResult
    /\ call \in {Call("VideoFilter::to_filter_string", f) : f \in VideoFilterSamples}
               \cup {Call("AudioFilter::to_filter_string", f) : f \in AudioFilterSamples}
               \cup {Call("vf_strings.join", c) : c \in Chains(ChainVideoFilters)}
               \cup {Call("af_strings.join", c) : c \in Chains(ChainAudioFilters)}

RenderVideoFilter ==
    /\ call.fn = "VideoFilter::to_filter_string"
    /\ returned = NoResult
    /\ returned' = Ok(VideoFilter_to_filter_string(call.arg))
    /\ UNCHANGED <<call, requestVars>>

RenderAudioFilter ==
    /\ call.fn = "AudioFilter::to_filter_string"
    /\ returned = NoResult
    /\ returned' = Ok(AudioFilter_to_filter_string(call.arg))
    /\ UNCHANGED <<call, requestVars>>

(* the -vf value ValidatedTranscode::run renders for a list of filters *)
RenderVideoChain ==
    /\ call.fn = "vf_strings.join"
    /\ returned = NoResult
    /\ returned' = Ok(VideoFilterArgs(FfmpegCommand_new(WhichFfmpeg), [video_filters |-> call.arg]).args[2])
    /\ UNCHANGED <<call, requestVars>>

(* the -af value ValidatedTranscode::run renders for a list of filters *)
RenderAudioChain ==
    /\ call.fn = "af_strings.join"
    /\ returned = NoResult
    /\ returned' = Ok(AudioFilterArgs(FfmpegCommand_new(WhichFfmpeg), [audio_filters |-> call.arg]).args[2])
    /\ UNCHANGED <<call, requestVars>>

NextFilter == RenderVideoFilter \/ RenderAudioFilter \/ RenderVideoChain \/ RenderAudioChain

SpecFilter == InitFilter /\ [][NextFilter]_vars

(* how many commas a text has *)
Commas(str) == Cardinality({i \in 1..Len(str) : str[i] = ","})

(* how many filters of a list are of the variant *)
CountTag(filters, tag) == Cardinality({i \in 1..Len(filters) : filters[i].tag = tag})

IsSingle == call.fn \in {"VideoFilter::to_filter_string", "AudioFilter::to_filter_string"}

IsChain == call.fn \in {"vf_strings.join", "af_strings.join"}

(* C8 as the specification states it: every variant other than Custom, for  *)
(* every parameter value, renders a fragment without a comma, so that N     *)
(* fragments joined with ',' are a chain of exactly N filters.              *)
C8_NoCommaInFragment ==
    returned # NoResult =>
        /\ IsSingle /\ call.arg.tag # "Custom" => Commas(returned.value) = 0
        /\ IsChain /\ CountTag(call.arg, "Custom") = 0 =>
               Commas(returned.value) + 1 = Len(call.arg)

(* C8: every VideoFilter variant other than Custom, and every AudioFilter   *)
(* variant other than Custom and Normalization, renders a fragment without  *)
(* a comma for every parameter value.  Normalization renders two filters,   *)
(* anlmdn=m=I:p=0.05 and loudnorm=I=<level>, with exactly one comma between *)
(* them.  N fragments without a Custom, k of them Normalization, joined     *)
(* with ',' are therefore a chain of N + k comma-separated filters.         *)
C8_CommaOnlyInNormalization ==
    returned # NoResult =>
        /\ IsSingle /\ call.arg.tag \notin {"Custom", "Normalization"} =>
               Commas(returned.value) = 0
        /\ IsSingle /\ call.arg.tag = "Normalization" =>
               /\ Commas(returned.value) = 1
               /\ SubSeq(returned.value, 1, 18) =
                     <<"a","n","l","m","d","n","=","m","=","I",":","p","=","0",".","0","5",",">>
               /\ SubSeq(returned.value, 19, 29) = <<"l","o","u","d","n","o","r","m","=","I","=">>
        /\ IsChain /\ CountTag(call.arg, "Custom") = 0 =>
               Commas(returned.value) + 1 = Len(call.arg) + CountTag(call.arg, "Normalization")

C8_Witness ==
    /\ call.fn = "af_strings.join"
    /\ returned # NoResult
    /\ Len(call.arg) = 3
    /\ CountTag(call.arg, "Normalization") = 2
    /\ CountTag(call.arg, "Equalizer") = 1
    /\ Commas(returned.value) = 4

C8_WitnessSingle ==
    /\ call.fn = "AudioFilter::to_filter_string"
    /\ returned # NoResult
    /\ call.arg.tag = "Equalizer"
    /\ IsSome(call.arg.bass) /\ IsSome(call.arg.mid) /\ IsSome(call.arg.treble)
    /\ Commas(returned.value) = 0

-----------------------------------------------------------------------------
(* types.rs: Time::from_seconds_f64 and Time::to_ffmpeg_timestamp *)

(* whole seconds: around the minute, the hour and a hundred hours *)
WholeSamples == {0, 1, 59, 60, 3599, 3600, 86399, 359999, 360000}

(* the fraction of a second in half nanoseconds: around a nanosecond, around *)
(* half a millisecond (0.0005 s is 1000000 half nanoseconds) and around the  *)
(* last millisecond and the last nanosecond of the second                    *)
HalfSamples ==
    {0, 1, 2, 999998, 999999, 1000000, 1000001, 1200000, 2000000, 2999999, 3000000,
     246913578, 1998000000, 1998999999, 1999000000, 1999000001, 1999999997, 1999999998,
     1999999999}

SecondsSamples == [whole : WholeSamples, half : HalfSamples]

InitTime ==
    /\ NoRequest
    /\ jobs = NoJobs
    /\ returned = NoResult
    /\ call \in {Call("from_seconds_f64", x) : x \in SecondsSamples}
               \cup {Call("from_seconds", n) : n \in WholeSamples}

(* Time::from_seconds_f64(s).to_ffmpeg_timestamp() *)
TimestampOfF64 ==
    /\ call.fn = "from_seconds_f64"
    /\ returned = NoResult
    /\ returned' = Ok(to_ffmpeg_timestamp(from_seconds_f64(call.arg)))
    /\ UNCHANGED <<call, requestVars>>

(* Time::from_seconds(n).to_ffmpeg_timestamp() *)
TimestampOfSeconds ==
    /\ call.fn = "from_seconds"
    /\ returned = NoResult
    /\ returned' = Ok(to_ffmpeg_timestamp(from_seconds(call.arg)))
    /\ UNCHANGED <<call, requestVars>>

NextTime == TimestampOfF64 \/ TimestampOfSeconds

SpecTime == InitTime /\ [][NextTime]_vars

TwoDigits(n) == IF n < 10 THEN <<"0">> \o DecStr(n) ELSE DecStr(n)

ThreeDigits(n) == <<Digits[(n \div 100) + 1], Digits[((n \div 10) % 10) + 1], Digits[(n % 10) + 1]>>

(* HH:MM:SS.mmm of a count of milliseconds *)
ClockOfMillis(ms) ==
    TwoDigits(ms \div 3600000) \o <<":">> \o TwoDigits((ms \div 60000) % 60) \o <<":">>
    \o TwoDigits((ms \div 1000) % 60) \o <<".">> \o ThreeDigits(ms % 1000)

(* the seconds value s.whole + s.half / (2 * 10^9) as milliseconds, rounded  *)
(* to the nearest millisecond (a half rounds up)                             *)
NearestMillis(s) == s.whole * 1000 + ((s.half + 1000000) \div 2000000)

(* the seconds value rounded to the nearest nanosecond (a half rounds up)    *)
(* and then cut to whole milliseconds                                        *)
CutMillis(s) == s.whole * 1000 + (((s.half + 1) \div 2) \div 1000000)

C9_WitnessCarry ==
    /\ call.fn = "from_seconds_f64"
    /\ call.arg = [whole |-> 359999, half |-> 1999999999]
    /\ returned = Ok(<<"1","0","0",":","0","0",":","0","0",".","0","0","0">>)

-----------------------------------------------------------------------------
(* probe.rs and types.rs: the conversions of texts, outside any request *)

(* frame-rate texts: ratios, bare numbers, zeros in several spellings, tiny  *)
(* denominators, texts that are no numbers, and the non-finite numbers       *)
RatioTexts ==
    {<<"3","0","0","0","0","/","1","0","0","1">>,
     <<"0","/","0">>,
     <<"5","9",".","9","4">>,
     <<"0">>,
     <<"0","/","1">>,
     <<"0",".","0">>,
     <<"0","0">>,
     <<"-","0">>,
     <<"0","/","3","0">>,
     <<"3","0","/","0">>,
     <<"3","0","/","0",".","0">>,
     <<"3","0","/","-","0">>,
     <<"1","/","1","e","-","1","7">>,
     <<"1","/","0",".","0","0","0","0","0","0","0","0","0","0","0","0","0","0","0","1">>,
     <<"1","/","3","e","-","1","6">>,
     <<"a","b","c">>,
     <<>>,
     <<"/">>,
     <<"3","0","/">>,
     <<"/","3","0">>,
     <<"1","/","2","/","3">>,
     <<"a","/","1">>,
     <<"1","/","b">>,
     <<"i","n","f">>,
     <<"i","n","f","/","1">>,
     <<"1","/","i","n","f">>,
     <<"n","a","n">>,
     <<"2","4","/","1">>,
     <<"2","5">>,
     <<"+","3","0","/","1">>,
     <<" ","3","0","/","1">>,
     <<"1","e","3","/","1">>,
     <<"-","3","0","/","1">>,
     <<"1","e","4","0","0">>,
     <<"0","x","1","0">>,
     <<"3","0"," ","/"," ","1">>,
     <<".","5">>,
     <<"5",".">>,
     <<".">>,
     <<"1","e">>,
     <<"0","e","5","/","1">>,
     <<"1","/","0","e","5">>,
     <<"N","a","N","/","1">>,
     <<"-","i","n","f">>}

(* the names that from_name knows, with their variants *)
KnownNames ==
    {<<<<"h","2","6","4">>, "H264">>,
     <<<<"l","i","b","x","2","6","4">>, "H264">>,
     <<<<"h","e","v","c">>, "Hevc">>,
     <<<<"h","2","6","5">>, "Hevc">>,
     <<<<"l","i","b","x","2","6","5">>, "Hevc">>,
     <<<<"v","p","9">>, "Vp9">>,
     <<<<"a","v","1">>, "Av1">>,
     <<<<"a","a","c">>, "Aac">>,
     <<<<"m","p","3">>, "Mp3">>,
     <<<<"o","p","u","s">>, "Opus">>,
     <<<<"p","c","m","_","s","1","6","l","e">>, "PcmS16Le">>,
     <<<<"c","o","p","y">>, "Copy">>}

(* the ways to write a name in upper-case and lower-case letters *)
RECURSIVE Casings(_)
Casings(name) ==
    IF name = <<>> THEN {<<>>}
    ELSE {<<ch>> \o rest :
             ch \in {name[1]} \cup {UpperLetters[i] : i \in {j \in 1..26 : LowerLetters[j] = name[1]}},
             rest \in Casings(Tail(name))}

KnownCasings == UNION {Casings(k[1]) : k \in KnownNames}

OtherNames ==
    {<<>>,
     <<"h","2","6","6">>,
     <<"H","2","6","6">>,
     <<"p","r","o","r","e","s">>,
     <<"P","r","o","R","e","s">>,
     <<"h","2","6","4"," ">>,
     <<" ","H","2","6","4">>,
     <<"l","i","b","x","2","6","4","r","g","b">>,
     <<"x","2","6","4">>,
     <<"M","P","E","G","4">>,
     <<"h",".","2","6","4">>,
     <<"H",".","2","6","5">>,
     <<"h","e","v","c","1">>,
     <<"C","O","P","Y","\n">>,
     <<"v","p","8">>,
     <<"V","P","0","9">>,
     <<"a","v","0","1">>,
     <<"m","p","3","f","l","o","a","t">>,
     <<"p","c","m","_","s","1","6","b","e">>,
     <<"P","C","M","_","S","1","6","B","E">>,
     <<"l","i","b","o","p","u","s">>,
     <<"L","I","B","X","2","6","5"," ">>,
     <<"h","-","2","6","4">>,
     <<"u","n","k","n","o","w","n">>,
     <<"U","n","k","n","o","w","n">>,
     <<"U+212A">>,
     <<"c","o","p","U+212A">>,
     <<"U+00C9","c","o","p","y">>}

CodecNames == KnownCasings \cup OtherNames

CodecTypes ==
    {[tag |-> t] : t \in {"H264", "Hevc", "Vp9", "Av1", "Aac", "Mp3", "Opus", "PcmS16Le", "Copy"}}
    \cup {[tag |-> "Other", name |-> to_lowercase(n)] : n \in OtherNames}

(* the codec names of probed streams *)
ProbedNames ==
    {None} \cup {Some(k[1]) : k \in KnownNames}
           \cup {Some(n) : n \in {<<"H","E","V","C">>, <<"p","r","o","r","e","s">>, <<"V","P","8">>}}

(* a stream of the prober's report with the codec name *)
NamedStream(codec_name) ==
    JObj(<<<<"codec_type", JStr(<<"v","i","d","e","o">>)>>>>
         \o (IF IsSome(codec_name) THEN <<<<"codec_name", JStr(Unwrap(codec_name))>>>> ELSE <<>>))

InitConvert ==
    /\ NoRequest
    /\ jobs = NoJobs
    /\ returned = NoResult
    /\ call \in {Call("parse_ratio", None)} \cup {Call("parse_ratio", Some(t)) : t \in RatioTexts}
                \cup {Call("from_name", n) : n \in CodecNames}
                \cup {Call("as_str", c) : c \in CodecTypes}
                \cup {Call("probed", n) : n \in ProbedNames}
                \cup {Call("round_trip", c) : c \in CodecTypes}

CallParseRatio ==
    /\ call.fn = "parse_ratio"
    /\ returned = NoResult
    /\ returned' = Ok(parse_ratio(call.arg))
    /\ UNCHANGED <<call, requestVars>>

(* CodecType::from_name(name) *)
CallFromName ==
    /\ call.fn = "from_name"
    /\ returned = NoResult
    /\ returned' = Ok(from_name(call.arg))
    /\ UNCHANGED <<call, requestVars>>

(* codec.as_str() *)
CallAsStr ==
    /\ call.fn = "as_str"
    /\ returned = NoResult
    /\ returned' = Ok(as_str(call.arg))
    /\ UNCHANGED <<call, requestVars>>

(* a stream of a report is read, and the codec of its StreamInfo is rendered *)
(* for an encode                                                            *)
RenderProbed ==
    /\ call.fn = "probed"
    /\ returned = NoResult
    /\ returned' = Ok(as_str(Unwrap(stream_info_from_ffprobe(de_FfprobeStream(NamedStream(call.arg)).value)).codec))
    /\ UNCHANGED <<call, requestVars>>

(* CodecType::from_name(codec.as_str()) *)
RoundTrip ==
    /\ call.fn = "round_trip"
    /\ returned = NoResult
    /\ returned' = Ok(from_name(as_str(call.arg)))
    /\ UNCHANGED <<call, requestVars>>

NextConvert == CallParseRatio \/ CallFromName \/ CallAsStr \/ RenderProbed \/ RoundTrip

SpecConvert == InitConvert /\ [][NextConvert]_vars

(* the magnitude of a parsed number is zero: 0, -0, 0.0, 0e5 *)
ZeroValued(x) == x.kind = "fin" /\ x.int = <<"0">> /\ x.frac = <<>>

(* the quotient num / den of two parsed numbers is zero, or is infinite *)
QuotientIsZero(num, den) ==
    \/ ZeroValued(num) /\ den.kind # "nan" /\ ~ZeroValued(den)
    \/ num.kind = "fin" /\ den.kind = "inf"

QuotientIsInfinite(num, den) ==
    \/ num.kind = "inf" /\ den.kind = "fin"
    \/ num.kind = "fin" /\ ~ZeroValued(num) /\ ZeroValued(den)

(* the two sides of a text at its first '/', or the text and 1 without one *)
NumeratorText(r) == IF IndexOf(r, "/") = 0 THEN r ELSE SubSeq(r, 1, IndexOf(r, "/") - 1)

DenominatorText(r) ==
    IF IndexOf(r, "/") = 0 THEN <<"1">> ELSE SubSeq(r, IndexOf(r, "/") + 1, Len(r))

(* the cases in which the frame rate is absent, as the specification lists   *)
(* them                                                                      *)
RatioAbsent(raw) ==
    \/ ~IsSome(raw)
    \/ Unwrap(raw) = <<"0","/","0">>
    \/ Unwrap(raw) = <<"0">>
    \/ ~IsSome(parse_f64(NumeratorText(Unwrap(raw))))
    \/ ~IsSome(parse_f64(DenominatorText(Unwrap(raw))))
    \/ ZeroValued(Unwrap(parse_f64(DenominatorText(Unwrap(raw)))))

(* C12: the frame rate of a raw text is absent when the text is absent,      *)
(* when a side of the '/' is not a number, when the denominator is zero, or  *)
(* when the text is exactly "0/0" or "0"; otherwise it is the quotient of    *)
(* the numerator and the denominator (the bare number without a '/'); and    *)
(* for no input is the result infinity or zero.                              *)
C12_RatioAbsentOrQuotient ==
    call.fn = "parse_ratio" /\ returned # NoResult =>
        /\ RatioAbsent(call.arg) => returned.value = None
        /\ ~RatioAbsent(call.arg) =>
               /\ IsSome(returned.value)
               /\ Unwrap(returned.value).num = Unwrap(parse_f64(NumeratorText(Unwrap(call.arg))))
               /\ Unwrap(returned.value).den = Unwrap(parse_f64(DenominatorText(Unwrap(call.arg))))
        /\ IsSome(returned.value) =>
               /\ ~QuotientIsZero(Unwrap(returned.value).num, Unwrap(returned.value).den)
               /\ ~QuotientIsInfinite(Unwrap(returned.value).num, Unwrap(returned.value).den)

(* the variant that the claim assigns to a name, "Other" for every string   *)
(* that is no casing of a known name                                        *)
VariantOf(name) ==
    IF \E k \in KnownNames : name \in Casings(k[1])
    THEN (CHOOSE k \in KnownNames : name \in Casings(k[1]))[2]
    ELSE "Other"

(* l is s with every upper-case letter replaced by its lower-case letter *)
IsLowerCased(l, s) ==
    /\ Len(l) = Len(s)
    /\ \A i \in 1..Len(s) :
          \/ l[i] = s[i] /\ s[i] \notin {UpperLetters[j] : j \in 1..26} \cup {"U+00C9", "U+212A"}
          \/ \E j \in 1..26 : s[i] = UpperLetters[j] /\ l[i] = LowerLetters[j]
          \/ s[i] = "U+00C9" /\ l[i] = "U+00E9"
          \/ s[i] = "U+212A" /\ l[i] = "k"

(* C19: CodecType::from_name returns for every string: for every casing of *)
(* h264/libx264 H264, of hevc/h265/libx265 Hevc, of vp9 Vp9, of av1 Av1, of *)
(* aac Aac, of mp3 Mp3, of opus Opus, of pcm_s16le PcmS16Le, of copy Copy,  *)
(* and for every other string Other carrying the lower-cased input.         *)
C19_FromNameTotal ==
    call.fn = "from_name" /\ returned # NoResult =>
        /\ returned.tag = "Ok"
        /\ returned.value.tag = VariantOf(call.arg)
        /\ VariantOf(call.arg) # "Other" => returned.value = [tag |-> VariantOf(call.arg)]
        /\ VariantOf(call.arg) = "Other" => IsLowerCased(returned.value.name, call.arg)

C19_Witness ==
    /\ call = Call("from_name", <<"L","i","b","X","2","6","5">>)
    /\ returned = Ok([tag |-> "Hevc"])

(* a string that is no casing of a known name comes back lower-cased *)
C19_WitnessOther ==
    /\ call = Call("from_name", <<"P","r","o","R","e","s">>)
    /\ returned = Ok([tag |-> "Other", name |-> <<"p","r","o","r","e","s">>])

(* the encoder token of each variant *)
EncoderTokens ==
    {<<"H264", <<"l","i","b","x","2","6","4">>>>,
     <<"Hevc", <<"l","i","b","x","2","6","5">>>>,
     <<"Vp9", <<"l","i","b","v","p","x","-","v","p","9">>>>,
     <<"Av1", <<"l","i","b","a","o","m","-","a","v","1">>>>,
     <<"Aac", <<"a","a","c">>>>,
     <<"Mp3", <<"l","i","b","m","p","3","l","a","m","e">>>>,
     <<"Opus", <<"l","i","b","o","p","u","s">>>>,
     <<"PcmS16Le", <<"p","c","m","_","s","1","6","l","e">>>>,
     <<"Copy", <<"c","o","p","y">>>>}

(* C20: rendering a codec for an encode returns the encoder token of the    *)
(* variant: H264 libx264, Hevc libx265, Vp9 libvpx-vp9, Av1 libaom-av1, Aac *)
(* aac, Mp3 libmp3lame, Opus libopus, PcmS16Le pcm_s16le, Copy copy, and    *)
(* Other(s) s; so the codec of a stream probed as "hevc" renders as         *)
(* "libx265", and that of any probed stream as the token of the variant of  *)
(* its name.                                                                *)
C20_EncoderTokens ==
    /\ call.fn = "as_str" /\ returned # NoResult =>
          IF call.arg.tag = "Other" THEN returned = Ok(call.arg.name)
          ELSE <<call.arg.tag, returned.value>> \in EncoderTokens
    /\ call.fn = "probed" /\ returned # NoResult =>
          /\ call.arg = Some(<<"h","e","v","c">>) => returned = Ok(<<"l","i","b","x","2","6","5">>)
          /\ call.arg # None /\ VariantOf(call.arg[1]) # "Other" =>
                <<VariantOf(call.arg[1]), returned.value>> \in EncoderTokens
          /\ call.arg # None /\ VariantOf(call.arg[1]) = "Other" =>
                IsLowerCased(returned.value, call.arg[1])
          /\ call.arg = None => returned = Ok(<<"u","n","k","n","o","w","n">>)

C20_Witness ==
    /\ call = Call("probed", Some(<<"h","e","v","c">>))
    /\ returned = Ok(<<"l","i","b","x","2","6","5">>)

(* every variant has been rendered *)
C20_WitnessTable ==
    /\ call = Call("as_str", [tag |-> "Vp9"])
    /\ returned = Ok(<<"l","i","b","v","p","x","-","v","p","9">>)

-----------------------------------------------------------------------------
(* Invocations in flight at the same time.  Each invocation is a call of     *)
(* TranscodeBuilder::run on its own builder or of probe_with_binaries on its *)
(* own arguments, made by its own thread; the operating system keeps the     *)
(* spawned processes, and Command::output waits for the child it spawned.    *)

NumInvocations == 2

(* the PATH of the environment all invocations run in *)
PathEnv == [ffmpeg |-> TRUE, ffprobe |-> TRUE]

OptBinaries ==
    with_paths(<<"/","o","p","t","/","f","f","m","p","e","g">>,
               <<"/","o","p","t","/","f","f","p","r","o","b","e">>)

TranscodeRequest(b) == [kind |-> "transcode", builder |-> b]

ProbeRequest(paths, path) == [kind |-> "probe", paths |-> paths, path |-> path]

ConcurrentRequests ==
    {TranscodeRequest(video_codec(output(input(with_binaries(new, OptBinaries), <<"i","n",".","a","v","i">>),
                                         <<"o","u","t",".","m","p","4">>),
                                  <<"l","i","b","x","2","6","4">>)),
     TranscodeRequest(extra_arg(output(input(new, <<"a",".","m","k","v">>), <<"o","u","t",".","m","p","4">>),
                                <<"-","a","n">>)),
     TranscodeRequest(input(new, <<"i","n",".","a","v","i">>)),
     ProbeRequest(OptBinaries, <<"a",".","m","k","v">>),
     ProbeRequest(with_paths(WhichFfmpeg, WhichFfprobe), <<"i","n",".","a","v","i">>)}

(* what a child process may end with *)
ChildCodes == {Some(0), Some(1)}

ChildStderrs == {<<Rle("ascii", 20)>>}

ChildStdouts ==
    {[utf8 |-> TRUE, json |-> Report(FormatMembers, <<JObj(VideoMembers), JObj(AudioMembers)>>)],
     [utf8 |-> TRUE, json |-> JObj(<<>>)]}

Called(request) ==
    [request |-> request, pc |-> "called", command |-> None, child |-> 0, result |-> NoResult]

InitConcurrent ==
    /\ NoRequest
    /\ call = NoCall
    /\ returned = NoResult
    /\ jobs \in [invocations : [1..NumInvocations -> {Called(r) : r \in ConcurrentRequests}],
                 processes : {<<>>}]

Invocation(i) == jobs.invocations[i]

(* the invocation returns without a child process *)
ReturnEarly(i, err) ==
    jobs' = [jobs EXCEPT !.invocations[i].pc = "returned", !.invocations[i].result = err]

(* Command::output: the operating system starts the child, or refuses *)
SpawnChild(i, command) ==
    \E started \in CanStart(command.binary) :
        IF started
        THEN jobs' = [jobs EXCEPT !.invocations[i].pc = "waiting",
                                  !.invocations[i].command = Some(command),
                                  !.invocations[i].child = Len(jobs.processes) + 1,
                                  !.processes = Append(@, [st |-> "running", command |-> command,
                                                           output |-> NoOutput])]
        ELSE ReturnEarly(i, Err(Io("spawn")))

(* TranscodeBuilder::run after validate *)
RunValidated(i, v) ==
    IF v.res.tag = "Err" THEN ReturnEarly(i, v.res)
    ELSE SpawnChild(i, spawn_command(ValidatedTranscode_command(v.res.value)))

(* TranscodeBuilder::run up to the spawn inside Command::output *)
InvokeTranscode(i) ==
    /\ Invocation(i).pc = "called"
    /\ Invocation(i).request.kind = "transcode"
    /\ RunValidated(i, validate(Invocation(i).request.builder, PathEnv))
    /\ UNCHANGED <<call, returned, builder, phase, nCalls, validated, cmd, proc, spawns, validations,
                   discoveries, result, prober, pphase>>

(* probe_with_binaries up to the spawn inside Command::output *)
InvokeProbe(i) ==
    /\ Invocation(i).pc = "called"
    /\ Invocation(i).request.kind = "probe"
    /\ SpawnChild(i, build_command(FfprobeCommand_new(Invocation(i).request.paths.ffprobe,
                                                       Invocation(i).request.path)))
    /\ UNCHANGED <<call, returned, builder, phase, nCalls, validated, cmd, proc, spawns, validations,
                   discoveries, result, prober, pphase>>

(* a child process ends: an exit status, what it wrote to stderr and, when  *)
(* its stdout is a pipe, what it wrote there                                *)
ChildExit(p) ==
    /\ jobs.processes[p].st = "running"
    /\ \E code \in ChildCodes, err \in ChildStderrs,
          out \in IF jobs.processes[p].command.stdout = "piped" THEN ChildStdouts ELSE {EmptyStdout} :
         jobs' = [jobs EXCEPT !.processes[p].st = "exited",
                              !.processes[p].output = [code |-> code, stderr |-> err, stdout |-> out]]
    /\ UNCHANGED <<call, returned, builder, phase, nCalls, validated, cmd, proc, spawns, validations,
                   discoveries, result, prober, pphase>>

(* a return that reads the output of the process spawned last, whoever       *)
(* spawned it                                                                *)
ReturnTranscode_LastChild(i) ==
    /\ Invocation(i).pc = "waiting"
    /\ Invocation(i).request.kind = "transcode"
    /\ jobs.processes[Len(jobs.processes)].st = "exited"
    /\ jobs' = [jobs EXCEPT !.invocations[i].pc = "returned",
                            !.invocations[i].result =
                                FfmpegCommand_run_result(Unwrap(Invocation(i).command),
                                                         jobs.processes[Len(jobs.processes)].output)]
    /\ UNCHANGED <<call, returned, builder, phase, nCalls, validated, cmd, proc, spawns, validations,
                   discoveries, result, prober, pphase>>

(* Command::output returns the Output of the invocation's own child;         *)
(* FfmpegCommand::run maps the status                                        *)
ReturnTranscode(i) ==
    /\ Invocation(i).pc = "waiting"
    /\ Invocation(i).request.kind = "transcode"
    /\ jobs.processes[Invocation(i).child].st = "exited"
    /\ jobs' = [jobs EXCEPT !.invocations[i].pc = "returned",
                            !.invocations[i].result =
                                FfmpegCommand_run_result(Unwrap(Invocation(i).command),
                                                         jobs.processes[Invocation(i).child].output)]
    /\ UNCHANGED <<call, returned, builder, phase, nCalls, validated, cmd, proc, spawns, validations,
                   discoveries, result, prober, pphase>>

(* Command::output returns; FfprobeCommand::run, ffprobe_json and            *)
(* parse_probe_output read the captured output of the own child              *)
ReturnProbe(i) ==
    /\ Invocation(i).pc = "waiting"
    /\ Invocation(i).request.kind = "probe"
    /\ jobs.processes[Invocation(i).child].st = "exited"
    /\ jobs' = [jobs EXCEPT !.invocations[i].pc = "returned",
                            !.invocations[i].result =
                                probe_with_binaries_result(Unwrap(Invocation(i).command),
                                                           jobs.processes[Invocation(i).child].output)]
    /\ UNCHANGED <<call, returned, builder, phase, nCalls, validated, cmd, proc, spawns, validations,
                   discoveries, result, prober, pphase>>

NextConcurrent ==
    \/ \E i \in 1..NumInvocations : InvokeTranscode(i)
    \/ \E i \in 1..NumInvocations : InvokeProbe(i)
    \/ \E p \in 1..Len(jobs.processes) : ChildExit(p)
    \/ \E i \in 1..NumInvocations : ReturnTranscode(i)
    \/ \E i \in 1..NumInvocations : ReturnProbe(i)

SpecConcurrent == InitConcurrent /\ [][NextConcurrent]_vars

(* what the request does when it runs alone: the process it spawns ...       *)
AloneCommand(request) ==
    IF request.kind = "transcode"
    THEN spawn_command(ValidatedTranscode_command(validate(request.builder, PathEnv).res.value))
    ELSE build_command(FfprobeCommand_new(request.paths.ffprobe, request.path))

(* ... what it returns for what that process ended with ...                  *)
AloneResult(request, out) ==
    IF request.kind = "transcode"
    THEN FfmpegCommand_run_result(AloneCommand(request), out)
    ELSE probe_with_binaries_result(AloneCommand(request), out)

(* ... and what it returns when it spawns none                               *)
AloneEarly(request) ==
    IF request.kind = "transcode" /\ validate(request.builder, PathEnv).res.tag = "Err"
    THEN validate(request.builder, PathEnv).res
    ELSE Err(Io("spawn"))

(* how many invocations have a child *)
WithChild == Cardinality({i \in 1..NumInvocations : Invocation(i).child # 0})

(* C17: in every interleaving of concurrent transcode and probe invocations *)
(* each invocation spawns the process of its own argument sequence, the one *)
(* it spawns when it runs alone; no two invocations have the same child and *)
(* there are no other processes; an invocation returns only after its own   *)
(* child has ended, with the outcome it has alone for what that child ended *)
(* with; and a step of one invocation changes nothing of another invocation *)
(* or of another invocation's process.                                      *)
C17_Isolation ==
    /\ [](\A i \in 1..NumInvocations :
             /\ Invocation(i).child # 0 =>
                   /\ Invocation(i).child \in 1..Len(jobs.processes)
                   /\ jobs.processes[Invocation(i).child].command = AloneCommand(Invocation(i).request)
                   /\ Invocation(i).command = Some(AloneCommand(Invocation(i).request))
                   /\ \A j \in 1..NumInvocations : j # i => Invocation(j).child # Invocation(i).child
             /\ Invocation(i).pc = "returned" /\ Invocation(i).child # 0 =>
                   /\ jobs.processes[Invocation(i).child].st = "exited"
                   /\ Invocation(i).result =
                         AloneResult(Invocation(i).request, jobs.processes[Invocation(i).child].output)
             /\ Invocation(i).pc = "returned" /\ Invocation(i).child = 0 =>
                   Invocation(i).result = AloneEarly(Invocation(i).request)
             /\ Invocation(i).pc = "returned" <=> Invocation(i).result # NoResult)
    /\ [](Len(jobs.processes) = WithChild)
    /\ [][\A i \in 1..NumInvocations :
             jobs'.invocations[i] # jobs.invocations[i] =>
                 /\ jobs'.invocations[i].request = jobs.invocations[i].request
                 /\ \A j \in 1..NumInvocations : j # i => jobs'.invocations[j] = jobs.invocations[j]
                 /\ \A p \in 1..Len(jobs.processes) : jobs'.processes[p] = jobs.processes[p]
         ]_vars
    /\ [][\A p \in 1..Len(jobs.processes) :
             jobs'.processes[p] # jobs.processes[p] =>
                 /\ jobs'.invocations = jobs.invocations
                 /\ \A q \in 1..Len(jobs.processes) : q # p => jobs'.processes[q] = jobs.processes[q]
         ]_vars

C17_Witness ==
    /\ Invocation(1).pc = "returned" /\ Invocation(2).pc = "returned"
    /\ Invocation(1).child = 2 /\ Invocation(2).child = 1
    /\ Invocation(1).request.kind = "transcode" /\ Invocation(2).request.kind = "probe"
    /\ Invocation(1).result = Ok(Unit)
    /\ Invocation(2).result.tag = "Err"
    /\ jobs.processes[1].output.code = Some(1)
    /\ jobs.processes[2].output.code = Some(0)

-----------------------------------------------------------------------------
(* thumbnail.rs, and the parts of std::path::Path it uses *)

(* ThumbnailFormat::extension *)
ThumbnailFormat_extension(f) ==
    IF f = "Png" THEN <<"p","n","g">> ELSE <<"j","p","g">>

(* ThumbnailFormat::ffmpeg_args *)
ThumbnailFormat_ffmpeg_args(f) ==
    IF f = "Png" THEN <<<<"-","f">>, <<"i","m","a","g","e","2">>>>
    ELSE <<<<"-","f">>, <<"m","j","p","e","g">>>>

(* ThumbnailOptions::new *)
ThumbnailOptions_new(time) == [time |-> time, width |-> None, height |-> None, format |-> "Png"]

(* ThumbnailOptions::size *)
ThumbnailOptions_size(o, width, height) == [o EXCEPT !.width = Some(width), !.height = Some(height)]

(* ThumbnailOptions::format *)
ThumbnailOptions_format(o, f) == [o EXCEPT !.format = f]

(* Path::components read from the end: separators at the end and "." after *)
(* a separator are no components, and are skipped                          *)
RECURSIVE TrimComponents(_)
TrimComponents(path) ==
    IF Len(path) > 1 /\ path[Len(path)] = "/" THEN TrimComponents(SubSeq(path, 1, Len(path) - 1))
    ELSE IF Len(path) > 1 /\ path[Len(path)] = "." /\ path[Len(path) - 1] = "/"
    THEN TrimComponents(SubSeq(path, 1, Len(path) - 1))
    ELSE path

(* where the last component of a trimmed path starts *)
RECURSIVE ComponentStart(_, _)
ComponentStart(path, i) ==
    IF i = 0 \/ path[i] = "/" THEN i + 1 ELSE ComponentStart(path, i - 1)

(* Path::file_name: the last component when it is a normal one *)
file_name(path) ==
    LET trimmed == TrimComponents(path)
        name == SubSeq(trimmed, ComponentStart(trimmed, Len(trimmed)), Len(trimmed))
    IN  IF name \in {<<>>, <<".">>, <<".",".">>} THEN None ELSE Some(name)

(* the last "." of a file name, 0 when it has none *)
RECURSIVE LastDot(_, _)
LastDot(name, i) ==
    IF i = 0 \/ name[i] = "." THEN i ELSE LastDot(name, i - 1)

(* Path::extension: what follows the last "." of the file name, unless the  *)
(* name has no "." or only the one it starts with                           *)
extension(path) ==
    IF ~IsSome(file_name(path)) THEN None
    ELSE IF LastDot(Unwrap(file_name(path)), Len(Unwrap(file_name(path)))) <= 1 THEN None
    ELSE Some(SubSeq(Unwrap(file_name(path)),
                     LastDot(Unwrap(file_name(path)), Len(Unwrap(file_name(path)))) + 1,
                     Len(Unwrap(file_name(path)))))

(* Path::file_stem *)
file_stem(path) ==
    IF ~IsSome(file_name(path)) THEN None
    ELSE IF LastDot(Unwrap(file_name(path)), Len(Unwrap(file_name(path)))) <= 1 THEN file_name(path)
    ELSE Some(SubSeq(Unwrap(file_name(path)), 1,
                     LastDot(Unwrap(file_name(path)), Len(Unwrap(file_name(path)))) - 1))

(* PathBuf::set_extension: nothing without a file name; otherwise the path  *)
(* is cut behind the file stem and "." and the extension are pushed         *)
set_extension(path, ext) ==
    IF ~IsSome(file_stem(path)) THEN path
    ELSE SubSeq(path, 1, ComponentStart(TrimComponents(path), Len(TrimComponents(path))) - 1
                         + Len(Unwrap(file_stem(path))))
         \o (IF ext = <<>> THEN <<>> ELSE <<".">> \o ext)

(* Path::parent: the path without its last component; none for the empty   *)
(* path and for the root                                                    *)
parent(path) ==
    LET trimmed == TrimComponents(path)
        start == ComponentStart(trimmed, Len(trimmed))
    IN  IF trimmed \in {<<>>, <<"/">>} THEN None
        ELSE IF start = 2 THEN Some(<<"/">>)
        ELSE Some(TrimComponents(SubSeq(trimmed, 1, start - 1)))

(* fs::create_dir_all succeeds at once on the empty path; elsewhere the     *)
(* filesystem decides                                                       *)
CanCreate(dir) == IF dir = <<>> THEN {TRUE} ELSE BOOLEAN

(* the output argument of generate_with_binaries *)
thumbnail_output_path(outputPath, options) ==
    IF ~IsSome(extension(outputPath))
    THEN set_extension(outputPath, ThumbnailFormat_extension(options.format))
    ELSE outputPath

(* format!("scale={width}:{height}") *)
scale_arg(width, height) ==
    <<"s","c","a","l","e","=">> \o DecStr(width) \o <<":">> \o DecStr(height)

(* the FfmpegCommand that generate_with_binaries builds *)
thumbnail_command(paths, inputPath, outputPath, options) ==
    arg(args(args(arg(arg(arg(arg(arg(arg(arg(FfmpegCommand_new(paths.ffmpeg),
                                             <<"-","y">>),
                                         <<"-","s","s">>),
                                     to_ffmpeg_timestamp(options.time)),
                                 <<"-","i">>),
                             inputPath),
                         <<"-","v","f","r","a","m","e","s">>),
                     <<"1">>),
                  IF IsSome(options.width) /\ IsSome(options.height)
                  THEN <<<<"-","v","f">>, scale_arg(Unwrap(options.width), Unwrap(options.height))>>
                  ELSE <<>>),
             ThumbnailFormat_ffmpeg_args(options.format)),
        thumbnail_output_path(outputPath, options))

ThumbnailTimes == {from_seconds(0), from_seconds(3661), Duration(59, 999999999)}

ThumbnailOptionSamples ==
    LET plain == {ThumbnailOptions_new(t) : t \in ThumbnailTimes}
        sized == plain \cup {ThumbnailOptions_size(o, 320, 240) : o \in plain}
                       \cup {ThumbnailOptions_size(ThumbnailOptions_size(o, 320, 240), 0, 2147483647) : o \in plain}
    IN  sized \cup {ThumbnailOptions_format(o, f) : o \in sized, f \in {"Png", "Jpeg"}}

ThumbnailOutputs ==
    {<<"t","h","u","m","b">>,
     <<"t","h","u","m","b",".","p","n","g">>,
     <<"t","h","u","m","b",".","j","p","e","g">>,
     <<"o","u","t","/","t","h","u","m","b">>,
     <<"o","u","t",".","d","/","t","h","u","m","b">>,
     <<"a",".","b","/","c",".","d">>,
     <<"t","h","u","m","b",".">>,
     <<".","t","h","u","m","b">>,
     <<".","t","h","u","m","b",".","j","p","g">>,
     <<".",".">>,
     <<"o","u","t","/",".",".">>,
     <<>>,
     <<"/">>,
     <<".">>,
     <<"t","h","u","m","b","/">>,
     <<"t","h","u","m","b",".","p","n","g","/">>,
     <<"o","u","t","/","t","h","u","m","b","/",".">>,
     <<"/","t","h","u","m","b">>,
     <<"o","u","t","/","/","t","h","u","m","b">>,
     <<".",".",".">>,
     <<"a",".",".">>,
     <<"/","t","m","p","/",".",".">>}

ThumbnailRequests ==
    [kind : {"thumbnail"}, paths : {Some(OptBinaries)}, env : {PathEnv},
     input : {<<"i","n",".","a","v","i">>}, output : ThumbnailOutputs, options : ThumbnailOptionSamples]
    \cup [kind : {"thumbnail"}, paths : {None}, env : {PathEnv, [ffmpeg |-> FALSE, ffprobe |-> TRUE]},
          input : {<<"a",".","m","k","v">>},
          output : {<<"t","h","u","m","b">>, <<"o","u","t","/","t",".","j","p","e","g">>},
          options : ThumbnailOptionSamples]

InitThumbnail ==
    /\ NoRequest
    /\ call = NoCall
    /\ returned = NoResult
    /\ jobs \in [invocations : {<<Called(r)>> : r \in ThumbnailRequests}, processes : {<<>>}]

(* generate_with_binaries: the output's directory is created, the command   *)
(* built and run up to the spawn inside Command::output                     *)
generate_with_binaries(i, paths, request) ==
    \E made \in IF IsSome(parent(request.output)) THEN CanCreate(Unwrap(parent(request.output)))
                ELSE {TRUE} :
        IF ~made THEN ReturnEarly(i, Err(Io("create_dir_all")))
        ELSE SpawnChild(i, spawn_command(thumbnail_command(paths, request.input, request.output,
                                                           request.options)))

(* generate: FfmpegLocator::system()?, then generate_with_binaries *)
generate(i, located, request) ==
    IF located.tag = "Err" THEN ReturnEarly(i, located)
    ELSE generate_with_binaries(i, binaries(located.value), request)

(* a call of thumbnail::generate or thumbnail::generate_with_binaries *)
GenerateThumbnail(i) ==
    /\ Invocation(i).pc = "called"
    /\ Invocation(i).request.kind = "thumbnail"
    /\ IF IsSome(Invocation(i).request.paths)
       THEN generate_with_binaries(i, Unwrap(Invocation(i).request.paths), Invocation(i).request)
       ELSE generate(i, system(Invocation(i).request.env), Invocation(i).request)
    /\ UNCHANGED <<call, returned, builder, phase, nCalls, validated, cmd, proc, spawns, validations,
                   discoveries, result, prober, pphase>>

(* cmd.run(): Command::output returns the Output of the child;              *)
(* FfmpegCommand::run maps the status                                       *)
ReturnThumbnail(i) ==
    /\ Invocation(i).pc = "waiting"
    /\ Invocation(i).request.kind = "thumbnail"
    /\ jobs.processes[Invocation(i).child].st = "exited"
    /\ jobs' = [jobs EXCEPT !.invocations[i].pc = "returned",
                            !.invocations[i].result =
                                FfmpegCommand_run_result(Unwrap(Invocation(i).command),
                                                         jobs.processes[Invocation(i).child].output)]
    /\ UNCHANGED <<call, returned, builder, phase, nCalls, validated, cmd, proc, spawns, validations,
                   discoveries, result, prober, pphase>>

NextThumbnail ==
    \/ GenerateThumbnail(1)
    \/ \E p \in 1..Len(jobs.processes) : ChildExit(p)
    \/ ReturnThumbnail(1)

SpecThumbnail == InitThumbnail /\ [][NextThumbnail]_vars

(* the arguments in front of the output path *)
LeadingArgs(request) ==
    <<<<"-","y">>, <<"-","s","s">>, to_ffmpeg_timestamp(request.options.time), <<"-","i">>, request.input,
      <<"-","v","f","r","a","m","e","s">>, <<"1">>>>
    \o (IF request.options.width # None /\ request.options.height # None
        THEN <<<<"-","v","f">>,
               <<"s","c","a","l","e","=">> \o DecStr(request.options.width[1]) \o <<":">>
                   \o DecStr(request.options.height[1])>>
        ELSE <<>>)
    \o (IF request.options.format = "Png" THEN <<<<"-","f">>, <<"i","m","a","g","e","2">>>>
        ELSE <<<<"-","f">>, <<"m","j","p","e","g">>>>)

DefaultExtension(request) ==
    IF request.options.format = "Png" THEN <<".","p","n","g">> ELSE <<".","j","p","g">>

(* the path ends with the format's default extension, and is the caller's   *)
(* path, without the separators it ends with, in front of it                *)
HasDefaultExtension(path, request) ==
    /\ Len(path) > Len(DefaultExtension(request))
    /\ SubSeq(path, Len(path) - Len(DefaultExtension(request)) + 1, Len(path)) = DefaultExtension(request)
    /\ SubSeq(path, 1, Len(path) - Len(DefaultExtension(request)))
          = TrimComponents(request.output)

(* the thumbnail invocation has spawned the transcoder *)
ThumbnailSpawned ==
    /\ Len(jobs.invocations) = 1
    /\ jobs.invocations[1].request.kind = "thumbnail"
    /\ jobs.invocations[1].child # 0

(* C18: the transcoder that a thumbnail generation spawns has the arguments *)
(* -y, -ss <timestamp of the requested time>, -i <input>, -vframes 1, then  *)
(* -vf scale=<w>:<h> only when width and height are both set, then           *)
(* -f image2 for PNG or -f mjpeg for JPEG, then the output path as the last *)
(* argument; the output path has got the format's default extension when    *)
(* the caller's path has no extension, and is the caller's path unchanged   *)
(* when it has one.                                                         *)
C18_ThumbnailArguments ==
    ThumbnailSpawned =>
        /\ Len(jobs.processes[1].command.args) = Len(LeadingArgs(jobs.invocations[1].request)) + 1
        /\ SubSeq(jobs.processes[1].command.args, 1, Len(LeadingArgs(jobs.invocations[1].request)))
              = LeadingArgs(jobs.invocations[1].request)
        /\ IF extension(jobs.invocations[1].request.output) = None
           THEN HasDefaultExtension(jobs.processes[1].command.args[Len(jobs.processes[1].command.args)],
                                    jobs.invocations[1].request)
           ELSE jobs.processes[1].command.args[Len(jobs.processes[1].command.args)]
                   = jobs.invocations[1].request.output

-----------------------------------------------------------------------------
(* types.rs: ProbeResult and its lookups.  A StreamInfo is the record of its *)
(* variant's info with the variant in the field kind, so the                 *)
(* &VideoStreamInfo / &AudioStreamInfo of a lookup is the record itself.     *)

(* Iterator::find_map over the streams: the positions of the kind *)
PositionsOf(streams, kind) == {i \in 1..Len(streams) : streams[i].kind = kind}

(* the first position of a non-empty set of positions *)
FirstOf(ps) == CHOOSE i \in ps : \A j \in ps : i <= j

(* the last position of a non-empty set of positions *)
LastOf(ps) == CHOOSE i \in ps : \A j \in ps : j <= i

(* a first_video that returns the video stream reported last *)
first_video_Last(r) ==
    IF PositionsOf(r.streams, "Video") = {} THEN None
    ELSE Some(r.streams[LastOf(PositionsOf(r.streams, "Video"))])

(* ProbeResult::first_video *)
first_video(r) ==
    IF PositionsOf(r.streams, "Video") = {} THEN None
    ELSE Some(r.streams[FirstOf(PositionsOf(r.streams, "Video"))])

(* ProbeResult::first_audio *)
first_audio(r) ==
    IF PositionsOf(r.streams, "Audio") = {} THEN None
    ELSE Some(r.streams[FirstOf(PositionsOf(r.streams, "Audio"))])

MaxStreams == 4

MaxLookups == 3

(* the StreamInfo that the parser makes of a stream object of a report *)
StreamOf(members) == Unwrap(stream_info_from_ffprobe(de_FfprobeStream(JObj(members)).value))

StreamSamples ==
    {StreamOf(VideoMembers),
     StreamOf(WithMember(VideoMembers, "codec_name", JStr(<<"h","e","v","c">>))),
     StreamOf(AudioMembers),
     StreamOf(WithMember(AudioMembers, "codec_name", JStr(<<"o","p","u","s">>))),
     StreamOf(SubtitleMembers),
     StreamOf(DataMembers)}

StreamSeqs == UNION {[1..n -> StreamSamples] : n \in 0..MaxStreams}

(* results made by ProbeResult::new, and the one parsed from a report *)
ProbeResults ==
    {ProbeResult_new(FormatInfo_new(None, None, None, None, None), ss) : ss \in StreamSeqs}
    \cup {parse_probe_output(Report(FormatMembers, <<JObj(SubtitleMembers), JObj(VideoMembers),
                                                      JObj(AudioMembers)>>)).value}

(* a lookup with what it returned *)
Lookup(fn, value) == [fn |-> fn, value |-> value]

InitLookup ==
    /\ NoRequest
    /\ jobs = NoJobs
    /\ returned = Ok(<<>>)
    /\ call \in {Call("ProbeResult", r) : r \in ProbeResults}

(* result.first_video() *)
CallFirstVideo ==
    /\ call.fn = "ProbeResult"
    /\ Len(returned.value) < MaxLookups
    /\ returned' = Ok(Append(returned.value, Lookup("first_video", first_video(call.arg))))
    /\ UNCHANGED <<call, requestVars>>

(* result.first_audio() *)
CallFirstAudio ==
    /\ call.fn = "ProbeResult"
    /\ Len(returned.value) < MaxLookups
    /\ returned' = Ok(Append(returned.value, Lookup("first_audio", first_audio(call.arg))))
    /\ UNCHANGED <<call, requestVars>>

NextLookup == CallFirstVideo \/ CallFirstAudio

SpecLookup == InitLookup /\ [][NextLookup]_vars

(* the stream at position i is the one of the kind reported earliest *)
Earliest(ss, i, kind) ==
    /\ i \in 1..Len(ss)
    /\ ss[i].kind = kind
    /\ \A j \in 1..(i - 1) : ss[j].kind # kind

(* the streams of other kinds taken out of the sequence *)
OnlyKind(ss, kind) == SelectSeq(ss, LAMBDA st : st.kind = kind)

(* C21: first_video returns the earliest video stream in reported order and *)
(* first_audio the earliest audio stream, whatever streams of other kinds   *)
(* stand between them; each is absent exactly when the sequence holds no    *)
(* stream of that kind; no lookup changes the ProbeResult, and repeated     *)
(* lookups return the same stream.                                          *)
C21_FirstStreams ==
    /\ [](call.fn = "ProbeResult" =>
            \A n \in 1..Len(returned.value) :
                LET kind == IF returned.value[n].fn = "first_video" THEN "Video" ELSE "Audio"
                    got == returned.value[n].value
                    ss == call.arg.streams
                IN  /\ got = None <=> \A i \in 1..Len(ss) : ss[i].kind # kind
                    /\ got # None => /\ \E i \in 1..Len(ss) : Earliest(ss, i, kind) /\ got = Some(ss[i])
                                     /\ got = Some(OnlyKind(ss, kind)[1])
                    /\ \A m \in 1..Len(returned.value) :
                          returned.value[m].fn = returned.value[n].fn => returned.value[m].value = got)
    /\ [][call' = call]_vars

C21_Witness ==
    /\ call.fn = "ProbeResult"
    /\ Len(call.arg.streams) = 4
    /\ call.arg.streams[1].kind = "Subtitle"
    /\ call.arg.streams[2].kind = "Video" /\ call.arg.streams[3].kind = "Audio"
    /\ call.arg.streams[4].kind = "Video" /\ call.arg.streams[4] # call.arg.streams[2]
    /\ Len(returned.value) = 3
    /\ returned.value[1] = Lookup("first_video", Some(call.arg.streams[2]))
    /\ returned.value[2] = Lookup("first_audio", Some(call.arg.streams[3]))
    /\ returned.value[3] = returned.value[1]

(* the parsed sample report: H264 at 1920x1080, and AAC with two channels *)
C21_WitnessParsed ==
    /\ call.fn = "ProbeResult"
    /\ Len(returned.value) = 2
    /\ returned.value[1].fn = "first_video" /\ returned.value[1].value # None
    /\ returned.value[1].value[1].codec = [tag |-> "H264"]
    /\ returned.value[1].value[1].width = Some(<<"1","9","2","0">>)
    /\ returned.value[1].value[1].height = Some(<<"1","0","8","0">>)
    /\ returned.value[2].fn = "first_audio" /\ returned.value[2].value # None
    /\ returned.value[2].value[1].codec = [tag |-> "Aac"]
    /\ returned.value[2].value[1].channels = Some(<<"2">>)
    /\ call.arg.format.format_name # None

-----------------------------------------------------------------------------
(* The format of a probed report *)

(* the format object of a report, none when the key is missing or null *)
RawFormat(json) ==
    IF IsSome(Member(json.members, "format")) /\ Unwrap(Member(json.members, "format")).t = "obj"
    THEN Some(Unwrap(Member(json.members, "format")))
    ELSE None

(* every member of the format object that the parser reads is a text or null *)
FormatIsText(json) ==
    IsSome(RawFormat(json)) =>
        \A i \in 1..Len(FfprobeFormatFields) :
            IsSome(Member(Unwrap(RawFormat(json)).members, FfprobeFormatFields[i])) =>
                Unwrap(Member(Unwrap(RawFormat(json)).members, FfprobeFormatFields[i])).t \in {"str", "null"}

(* the report parses when its format key is taken away *)
ParsesWithoutFormat(json) ==
    parse_probe_output(JObj(WithMember(json.members, "format", JNull))).tag = "Ok"

(* the text is a decimal u64 *)
IsU64Text(raw) == IsSome(raw) /\ IsSome(parse_digits(Unwrap(raw), U64_MAX))

(* C22: parsing a JSON object report succeeds whether or not its format key *)
(* is present.  An absent format gives a FormatInfo whose five fields are   *)
(* all absent.  A present format gives its two names as they are, and its   *)
(* duration, bit rate and size each converted from its own text alone: a    *)
(* text that does not parse makes that field absent and no other.           *)
C22_FormatLenient ==
    ProbedReport /\ FormatIsText(proc.output.stdout.json) /\ ParsesWithoutFormat(proc.output.stdout.json) =>
        /\ result.tag = "Ok"
        /\ ~IsSome(RawFormat(proc.output.stdout.json)) =>
              result.value.format = FormatInfo_new(None, None, None, None, None)
        /\ IsSome(RawFormat(proc.output.stdout.json)) =>
              /\ result.value.format.format_name
                    = RawText(Unwrap(RawFormat(proc.output.stdout.json)), "format_name")
              /\ result.value.format.format_long_name
                    = RawText(Unwrap(RawFormat(proc.output.stdout.json)), "format_long_name")
              /\ IsSome(result.value.format.bit_rate)
                    <=> IsU64Text(RawText(Unwrap(RawFormat(proc.output.stdout.json)), "bit_rate"))
              /\ IsSome(result.value.format.size)
                    <=> IsU64Text(RawText(Unwrap(RawFormat(proc.output.stdout.json)), "size"))
              /\ IsSome(result.value.format.duration)
                    <=> IsSome(RawText(Unwrap(RawFormat(proc.output.stdout.json)), "duration"))
                        /\ parse_f64(Unwrap(RawText(Unwrap(RawFormat(proc.output.stdout.json)),
                                                    "duration"))) # None

-----------------------------------------------------------------------------
(* Filters with optional parameters *)

(* the parameters that are present, in the order given, as key=value *)
PresentParameters(pairs) ==
    LET present == SelectSeq(pairs, LAMBDA kv : kv[2] # None)
    IN  [i \in 1..Len(present) |-> present[i][1] \o <<"=">> \o FormatFloat(present[i][2][1])]

(* the name alone, or name= and up to three parameters with ':' between *)
NameAndParameters(name, ps) ==
    CASE Len(ps) = 0 -> name
      [] Len(ps) = 1 -> name \o <<"=">> \o ps[1]
      [] Len(ps) = 2 -> name \o <<"=">> \o ps[1] \o <<":">> \o ps[2]
      [] Len(ps) = 3 -> name \o <<"=">> \o ps[1] \o <<":">> \o ps[2] \o <<":">> \o ps[3]

(* C23: the video eq filter renders only those of brightness and contrast   *)
(* that are present, in that order, and the audio equalizer only those of   *)
(* bass (b=), mid (m=) and treble (t=) that are present, in that order,     *)
(* joined with ':' after '<name>='; with every parameter absent the         *)
(* fragment is the bare filter name, without '=' and without parameters.    *)
C23_OptionalParameters ==
    returned # NoResult =>
        /\ call.fn = "VideoFilter::to_filter_string" /\ call.arg.tag = "BrightnessContrast" =>
              returned.value =
                  NameAndParameters(<<"e","q">>,
                      PresentParameters(<<<<<<"b","r","i","g","h","t","n","e","s","s">>, call.arg.brightness>>,
                                          <<<<"c","o","n","t","r","a","s","t">>, call.arg.contrast>>>>))
        /\ call.fn = "AudioFilter::to_filter_string" /\ call.arg.tag = "Equalizer" =>
              returned.value =
                  NameAndParameters(<<"s","u","p","e","r","e","q","u","a","l","i","z","e","r">>,
                      PresentParameters(<<<<<<"b">>, call.arg.bass>>, <<<<"m">>, call.arg.mid>>,
                                          <<<<"t">>, call.arg.treble>>>>))

(* only the first and the last parameter of the equalizer are present *)
C23_Witness ==
    /\ call = Call("AudioFilter::to_filter_string",
                   [tag |-> "Equalizer", bass |-> Some(Flt(FALSE, 1, <<"5">>)), mid |-> None,
                    treble |-> Some(Flt(TRUE, 16, <<>>))])
    /\ returned = Ok(<<"s","u","p","e","r","e","q","u","a","l","i","z","e","r","=",
                       "b","=","1",".","5",":","t","=","-","1","6">>)

(* no parameter of the video eq filter is present *)
C23_WitnessBare ==
    /\ call = Call("VideoFilter::to_filter_string",
                   [tag |-> "BrightnessContrast", brightness |-> None, contrast |-> None])
    /\ returned = Ok(<<"e","q">>)

-----------------------------------------------------------------------------
(* Suggestions of errors *)

(* the message has the words at position i *)
HasAt(msg, words, i) ==
    /\ i + Len(words) - 1 <= Len(msg)
    /\ \A k \in 1..Len(words) : msg[i + k - 1] = words[k]

Mentions(msg, words) == \E i \in 1..(Len(msg) + 1) : HasAt(msg, words, i)

(* C24: the suggestion of an error depends on its kind and message only.    *)
(* Binary-not-found returns the suggestion it carries; invalid-input the    *)
(* input-file advice when the message contains "input path", otherwise the  *)
(* output advice when it contains "output path", otherwise a generic        *)
(* advice; process-failed a fixed advice; a filter error the version advice *)
(* when the message contains "unsupported" or "not supported" and the       *)
(* syntax advice otherwise; I/O, JSON, parse, timeout and unsupported-      *)
(* operation errors return no suggestion.                                   *)
C24_Suggestion ==
    call.fn = "suggestion" /\ returned # NoResult =>
        /\ returned.tag = "Ok"
        /\ call.arg.kind = "FFmpegNotFound" => returned.value = call.arg.suggestion
        /\ call.arg.kind = "InvalidInput" =>
              returned.value =
                  IF Mentions(call.arg.msg, <<"i","n","p","u","t"," ","p","a","t","h">>)
                  THEN Some(AdviceInput)
                  ELSE IF Mentions(call.arg.msg, <<"o","u","t","p","u","t"," ","p","a","t","h">>)
                  THEN Some(AdviceOutput)
                  ELSE Some(AdviceParameters)
        /\ call.arg.kind = "ProcessingError" => returned.value = Some(AdviceProcessing)
        /\ call.arg.kind = "FilterError" =>
              returned.value =
                  IF Mentions(call.arg.msg, <<"u","n","s","u","p","p","o","r","t","e","d">>)
                     \/ Mentions(call.arg.msg, <<"n","o","t"," ","s","u","p","p","o","r","t","e","d">>)
                  THEN Some(AdviceVersion)
                  ELSE Some(AdviceSyntax)
        /\ call.arg.kind \in {"Io", "Json", "Parse", "Timeout", "Unsupported"} => returned.value = None
        /\ call.arg.kind \in {"FFmpegNotFound", "InvalidInput", "ProcessingError", "FilterError", "Io",
                              "Json", "Parse", "Timeout", "Unsupported"}

(* a message that names both paths gets the input-file advice *)
C24_Witness ==
    /\ call = Call("suggestion", InvalidInput(<<"n","o"," ","o","u","t","p","u","t"," ","p","a","t","h"," ",
                                                "a","n","d"," ","n","o"," ","i","n","p","u","t"," ",
                                                "p","a","t","h">>))
    /\ returned = Ok(Some(AdviceInput))

(* a timeout has no suggestion, whatever its message *)
C24_WitnessNone ==
    /\ call = Call("suggestion", TimeoutError(<<"u","n","s","u","p","p","o","r","t","e","d"," ",
                                                "f","i","l","t","e","r">>))
    /\ returned = Ok(None)

-----------------------------------------------------------------------------
(* The fields of a builder under its configuration calls *)

BuilderFields ==
    {"binaries", "input", "output", "video_codec", "audio_codec", "video_bitrate", "audio_bitrate",
     "frame_rate", "preset", "video_filters", "audio_filters", "extra_args", "overwrite"}

(* the step leaves every field of the builder but the named one as it was *)
OnlyField(field) == \A f \in BuilderFields \ {field} : builder'[f] = builder[f]

(* the step leaves what every accessor but the named one returns *)
OtherAccessors(name) ==
    /\ name # "input_path" => input_path(builder') = input_path(builder)
    /\ name # "output_path" => output_path(builder') = output_path(builder)
    /\ name # "video_codec_ref" => video_codec_ref(builder') = video_codec_ref(builder)
    /\ name # "audio_codec_ref" => audio_codec_ref(builder') = audio_codec_ref(builder)
    /\ name # "video_bitrate_value" => video_bitrate_value(builder') = video_bitrate_value(builder)
    /\ name # "audio_bitrate_value" => audio_bitrate_value(builder') = audio_bitrate_value(builder)
    /\ name # "frame_rate_value" => frame_rate_value(builder') = frame_rate_value(builder)
    /\ name # "preset_value" => preset_value(builder') = preset_value(builder)
    /\ name # "overwrite_enabled" => overwrite_enabled(builder') = overwrite_enabled(builder)
    /\ name # "video_filters" => video_filters(builder') = video_filters(builder)
    /\ name # "audio_filters" => audio_filters(builder') = audio_filters(builder)

(* C25: each configuration call of TranscodeBuilder changes its own field   *)
(* only.  A new builder's accessors return the defaults: nothing for the    *)
(* paths, codecs, bitrates, frame rate and preset, empty filter lists, and  *)
(* overwrite enabled.  After a setter its accessor returns the value of     *)
(* that call, after add_video_filter, size and add_audio_filter the list    *)
(* with the new filter at its end, and every other accessor what it         *)
(* returned before; so after any chain of calls every accessor returns the  *)
(* value last set for its field, or the default.                            *)
C25_OwnFieldOnly ==
    /\ [](phase = "Empty" =>
            /\ input_path(builder) = None /\ output_path(builder) = None
            /\ video_codec_ref(builder) = None /\ audio_codec_ref(builder) = None
            /\ video_bitrate_value(builder) = None /\ audio_bitrate_value(builder) = None
            /\ frame_rate_value(builder) = None /\ preset_value(builder) = None
            /\ video_filters(builder) = <<>> /\ audio_filters(builder) = <<>>
            /\ overwrite_enabled(builder))
    /\ [][ /\ CallInput => /\ OnlyField("input") /\ OtherAccessors("input_path")
                           /\ \E x \in InputPaths : input_path(builder') = Some(x)
           /\ CallOutput => /\ OnlyField("output") /\ OtherAccessors("output_path")
                            /\ \E x \in OutputPaths : output_path(builder') = Some(x)
           /\ CallVideoCodec => /\ OnlyField("video_codec") /\ OtherAccessors("video_codec_ref")
                                /\ \E x \in VideoCodecs : video_codec_ref(builder') = Some(x)
           /\ CallAudioCodec => /\ OnlyField("audio_codec") /\ OtherAccessors("audio_codec_ref")
                                /\ \E x \in AudioCodecs : audio_codec_ref(builder') = Some(x)
           /\ CallVideoBitrate => /\ OnlyField("video_bitrate") /\ OtherAccessors("video_bitrate_value")
                                  /\ \E x \in VideoBitrates : video_bitrate_value(builder') = Some(x)
           /\ CallAudioBitrate => /\ OnlyField("audio_bitrate") /\ OtherAccessors("audio_bitrate_value")
                                  /\ \E x \in AudioBitrates : audio_bitrate_value(builder') = Some(x)
           /\ CallFrameRate => /\ OnlyField("frame_rate") /\ OtherAccessors("frame_rate_value")
                               /\ \E x \in FrameRates : frame_rate_value(builder') = Some(x)
           /\ CallPreset => /\ OnlyField("preset") /\ OtherAccessors("preset_value")
                            /\ \E x \in Presets : preset_value(builder') = Some(x)
           /\ CallOverwrite => /\ OnlyField("overwrite") /\ OtherAccessors("overwrite_enabled")
                               /\ overwrite_enabled(builder') \in BOOLEAN
           /\ CallExtraArg => /\ OnlyField("extra_args") /\ OtherAccessors("none")
                              /\ \E x \in ExtraArgValues : builder'.extra_args = Append(builder.extra_args, x)
           /\ CallAddVideoFilter =>
                 /\ OnlyField("video_filters") /\ OtherAccessors("video_filters")
                 /\ \E x \in BuilderVideoFilters : video_filters(builder') = Append(video_filters(builder), x)
           /\ CallSize =>
                 /\ OnlyField("video_filters") /\ OtherAccessors("video_filters")
                 /\ \E wh \in Sizes :
                       video_filters(builder')
                          = Append(video_filters(builder), [tag |-> "Scale", width |-> wh[1], height |-> wh[2]])
           /\ CallAddAudioFilter =>
                 /\ OnlyField("audio_filters") /\ OtherAccessors("audio_filters")
                 /\ \E x \in BuilderAudioFilters : audio_filters(builder') = Append(audio_filters(builder), x)
           /\ CallWithBinaries => /\ OnlyField("binaries") /\ OtherAccessors("none")
                                  /\ \E x \in SuppliedBinaries : builder'.binaries = Some(x)
         ]_vars

(* a codec set first is still there after bitrate, preset and overwrite     *)
(* calls; what was never set is at its default                              *)
C25_Witness ==
    /\ phase = "Configuring"
    /\ nCalls = 4
    /\ video_codec_ref(builder) # None
    /\ video_bitrate_value(builder) # None
    /\ preset_value(builder) # None
    /\ ~overwrite_enabled(builder)
    /\ input_path(builder) = None /\ audio_codec_ref(builder) = None
    /\ video_filters(builder) = <<>>

-----------------------------------------------------------------------------
(* The truncation of captured standard error *)

(* C26: building a process-failed error returns an error value for every   *)
(* captured standard-error byte sequence, with invalid UTF-8 and with byte  *)
(* offset 4096 of the decoded text inside a multi-byte character; the       *)
(* truncation never aborts the program.                                     *)
C26_TruncateReturns ==
    returned # NoResult =>
        /\ call.fn = "truncate" => returned.tag = "Ok"
        /\ call.fn = "command_failed" =>
              /\ returned.tag = "Err"
              /\ returned.error.kind = "ProcessingError"
              /\ returned.error.binary = call.arg.binary
              /\ returned.error.exit_code = call.arg.exit_code

-----------------------------------------------------------------------------
(* The duration of a probed report *)

(* the duration text of the report's format object, when there is one *)
RawDuration(json) ==
    IF IsSome(RawFormat(json)) THEN RawText(Unwrap(RawFormat(json)), "duration") ELSE None

(* a Duration: whole seconds within u64 and nine digits of nanoseconds *)
IsDuration(d) ==
    /\ IsDigits(d.secs) /\ DigitsLessEq(d.secs, U64_MAX)
    /\ IsDigits(d.nanos) /\ Len(d.nanos) = 9

(* C27: for every format.duration text of a report, with texts that parse   *)
(* as a negative, NaN, infinite or out-of-range number, probe parsing does  *)
(* not abort: it ends in a result, and a ProbeResult's duration is absent   *)
(* or a non-negative duration.                                              *)
C27_DurationTotal ==
    ProbedReport /\ IsSome(RawDuration(proc.output.stdout.json)) =>
        /\ result # Panicked
        /\ result.tag = "Ok" =>
              \/ result.value.format.duration = None
              \/ IsDuration(Unwrap(result.value.format.duration))

-----------------------------------------------------------------------------
(* The order of the checks of validation *)

(* the error of the first check that fails when only the paths are looked at *)
FirstMissingPath(b) ==
    IF ~IsSome(b.input) THEN Err(InvalidInput(MsgInputRequired))
    ELSE Err(InvalidInput(MsgOutputRequired))

(* neither binary is found on PATH *)
NothingOnPath == [ffmpeg |-> FALSE, ffprobe |-> FALSE]

(* C28: validation checks the input path, then the output path, then        *)
(* resolves the binaries, and the first check that fails gives the error:   *)
(* with both paths unset the error names the input path; a request with a   *)
(* missing path returns invalid-input and looks for no binary, also when    *)
(* ffmpeg and ffprobe cannot be located; binary-not-found is returned only  *)
(* with both paths set.                                                     *)
C28_ValidationOrder ==
    /\ phase = "Rejected" /\ ~(IsSome(builder.input) /\ IsSome(builder.output)) =>
          /\ result = FirstMissingPath(builder)
          /\ discoveries = 0
    /\ phase = "Rejected" /\ IsSome(builder.input) /\ IsSome(builder.output) =>
          /\ result.tag = "Err" /\ result.error.kind = "FFmpegNotFound"
          /\ ~IsSome(builder.binaries)
          /\ discoveries = 1
    /\ phase \in {"Empty", "Configuring"} /\ ~(IsSome(builder.input) /\ IsSome(builder.output)) =>
          /\ validate(builder, NothingOnPath).res = FirstMissingPath(builder)
          /\ validate(builder, NothingOnPath).discovered = 0

C28_Witness ==
    /\ phase = "Rejected"
    /\ ~IsSome(builder.input) /\ ~IsSome(builder.output)
    /\ ~IsSome(builder.binaries)
    /\ result = Err(InvalidInput(MsgInputRequired))
    /\ nCalls > 0

C28_WitnessNotFound ==
    /\ phase = "Rejected"
    /\ IsSome(builder.input) /\ IsSome(builder.output)
    /\ result.tag = "Err" /\ result.error.kind = "FFmpegNotFound"

-----------------------------------------------------------------------------
(* Rendering a codec and reading the rendered name back *)

(* C29: for every known (non-Other) CodecType variant c, the encoder name   *)
(* that c renders to parses back to c: from_name(as_str(c)) = c.            *)
C29_RoundTrip ==
    call.fn = "round_trip" /\ call.arg.tag # "Other" /\ returned # NoResult =>
        returned = Ok(call.arg)

-----------------------------------------------------------------------------
(* How often a flag is rendered *)

(* the number of rendered arguments that are the given text *)
Occurrences(text) == Cardinality(Positions(TheCommand.args, text))

(* the argument behind every occurrence of the flag is the value *)
FlagCarries(flag, value) ==
    \A i \in Positions(TheCommand.args, flag) :
        i < Len(TheCommand.args) /\ TheCommand.args[i + 1] = value

(* the flag is rendered once with the text of the setting, or not at all     *)
(* when the setting is unset                                                *)
OnceIfSet(flag, opt) ==
    /\ Occurrences(flag) = (IF IsSome(opt) THEN 1 ELSE 0)
    /\ IsSome(opt) => FlagCarries(flag, Unwrap(opt))

(* C30: in the arguments rendered for a transcode builder without extra raw *)
(* arguments exactly one of -y and -n appears, -i appears exactly once, and *)
(* each of -c:v, -c:a, -b:v, -b:a, -r, -preset, -vf, -af appears at most    *)
(* once, however many configuration calls were made: a scalar setting       *)
(* renders the value the builder holds, which is its last one, and all the  *)
(* filters of a kind render inside the one -vf or -af value.                *)
C30_FlagsOnce ==
    IsSome(cmd) /\ IsSome(validated) /\ builder.extra_args = <<>> =>
        /\ Occurrences(<<"-","y">>) + Occurrences(<<"-","n">>) = 1
        /\ Occurrences(<<"-","y">>) = 1 <=> builder.overwrite
        /\ Occurrences(<<"-","i">>) = 1
        /\ FlagCarries(<<"-","i">>, Unwrap(builder.input))
        /\ OnceIfSet(<<"-","c",":","v">>, builder.video_codec)
        /\ OnceIfSet(<<"-","c",":","a">>, builder.audio_codec)
        /\ OnceIfSet(<<"-","b",":","v">>, Kbps(builder.video_bitrate))
        /\ OnceIfSet(<<"-","b",":","a">>, Kbps(builder.audio_bitrate))
        /\ OnceIfSet(<<"-","r">>, Fps(builder.frame_rate))
        /\ OnceIfSet(<<"-","p","r","e","s","e","t">>, builder.preset)
        /\ Occurrences(<<"-","v","f">>) <= 1
        /\ Occurrences(<<"-","a","f">>) <= 1
        /\ FlagCarries(<<"-","v","f">>, VideoChain(builder.video_filters))
        /\ FlagCarries(<<"-","a","f">>, AudioChain(builder.audio_filters))

(* five configuration calls have set no more than the two paths, the video  *)
(* codec and the overwrite flag, so one of these calls was made twice       *)
C30_Witness ==
    /\ IsSome(cmd) /\ IsSome(validated)
    /\ nCalls = MaxCalls
    /\ builder.extra_args = <<>>
    /\ ~IsSome(builder.binaries)
    /\ IsSome(builder.video_codec)
    /\ ~IsSome(builder.audio_codec) /\ ~IsSome(builder.preset) /\ ~IsSome(builder.frame_rate)
    /\ ~IsSome(builder.video_bitrate) /\ ~IsSome(builder.audio_bitrate)
    /\ builder.video_filters = <<>> /\ builder.audio_filters = <<>>
    /\ Len(TheCommand.args) = 6

(* two video filters and one audio filter in one -vf and one -af *)
C30_WitnessFilters ==
    /\ IsSome(cmd) /\ IsSome(validated)
    /\ builder.extra_args = <<>>
    /\ Len(builder.video_filters) = 2
    /\ Len(builder.audio_filters) = 1
    /\ Occurrences(<<"-","v","f">>) = 1
    /\ Occurrences(<<"-","a","f">>) = 1

====
